---- MODULE Spec2Model ----
(***************************************************************************)
(* A model of the NBT codec and tag model of NBTEditor (src/nbt.py), of    *)
(* the file handler (src/nbt_handler.py) and of the editing operations     *)
(* that mutate tags (src/utils/*.py, src/ui/property_editor.py), and of    *)
(* the File menu of the main window (src/ui/main_window.py).               *)
(*                                                                         *)
(* Representation of Python values:                                        *)
(*   bytes            a sequence of integers 0..255                        *)
(*   str              a sequence of Unicode code points                    *)
(*   int              an integer; a 64-bit quantity read from or written   *)
(*                    to the wire is a pair <<hi, lo>> of signed 32-bit    *)
(*                    words (value = hi * 2^32 + (lo mod 2^32))            *)
(*   float            its IEEE-754 binary64 pattern, as a pair <<hi, lo>>  *)
(*                    of signed 32-bit words                               *)
(*   None             NoneType                                             *)
(*   dict             a sequence of [key, tag] entries with distinct keys, *)
(*                    in insertion order                                   *)
(*   a Tag object     the tuple <<TagType id of its class, value>>, a      *)
(*                    ListTag <<LIST, value, list_tag_type>>               *)
(*   object identity  where it matters (move_tag), tags are objects of a   *)
(*                    heap and containers hold references <<o>>            *)
(*   a file           [exists, bytes]; the disk maps paths to files        *)
(*   a call's outcome a record whose st is "ok" (returned), "raise" (an    *)
(*                    exception left the call) or "hang" (it never ends)   *)
(***************************************************************************)
EXTENDS Integers, Sequences, FiniteSets, TLC

\* ------------------------------------------------------------- TagType
END == 0
BYTE == 1
SHORT == 2
INT == 3
LONG == 4
FLOAT == 5
DOUBLE == 6
BYTE_ARRAY == 7
\* STRING is a TLA+ built-in: TagType.STRING is STRING_TAG here.
STRING_TAG == 8
LIST == 9
COMPOUND == 10
INT_ARRAY == 11
LONG_ARRAY == 12

\* Python's None, as the value of ListTag.list_tag_type.
NoneType == -1

\* The ids TAG_CLASSES has a key for.
TagIds == END..LONG_ARRAY

\* ------------------------------------------------------ Python helpers
\* Where a value is computed once and then used by name (name = value in
\* the code), the model writes CHOOSE r \in {e : name \in {value}} : TRUE,
\* the value of e with name bound to value.

Raise(e) == [st |-> "raise", err |-> e]

Hang == [st |-> "hang"]

OkBytes(b) == [st |-> "ok", bytes |-> b]

OkTag(tag, off) == [st |-> "ok", tag |-> tag, off |-> off]

\* A slice bound, as Python normalises it for a sequence of length n.
SliceIndex(i, n) ==
    IF i < 0 THEN (IF i + n < 0 THEN 0 ELSE i + n)
    ELSE IF i > n THEN n ELSE i

\* data[lo:hi]
PySlice(data, lo, hi) ==
    LET n == Len(data)
        a == SliceIndex(lo, n)
        b == SliceIndex(hi, n)
    IN IF a >= b THEN <<>> ELSE SubSeq(data, a + 1, b)

\* Where struct.unpack_from(fmt, data, offset) reads `size` bytes: the
\* 0-based start index, or -1 when it raises struct.error (a negative offset
\* counts from the end of the buffer).
UnpackStart(data, offset, size) ==
    LET n == Len(data)
        o == IF offset < 0 THEN offset + n ELSE offset
    IN IF o < 0 THEN -1
       ELSE IF n - o < size THEN -1
       ELSE o

Signed8(b) == IF b >= 128 THEN b - 256 ELSE b

\* struct.unpack('>B'), ('>b'), ('>H'), ('>h'), ('>i') of the bytes at index o.
U8(data, o) == data[o + 1]

I8(data, o) == Signed8(data[o + 1])

U16(data, o) == data[o + 1] * 256 + data[o + 2]

I16(data, o) == Signed8(data[o + 1]) * 256 + data[o + 2]

I32(data, o) ==
    Signed8(data[o + 1]) * 16777216 + data[o + 2] * 65536
        + data[o + 3] * 256 + data[o + 4]

\* struct.unpack('>q'): the two 32-bit words.
I64(data, o) == <<I32(data, o), I32(data, o + 4)>>

\* The big-endian two's complement bytes of v.
Bytes1(v) == <<v % 256>>

Bytes2(v) == <<(v \div 256) % 256, v % 256>>

Bytes4(v) ==
    <<(v \div 16777216) % 256, (v \div 65536) % 256, (v \div 256) % 256, v % 256>>

\* struct.pack('>b', v), ('>h', v), ('>i', v), ('>B', v), ('>H', v): struct.error
\* when v is outside the format's range.
PackB(v) ==
    IF v < -128 \/ v > 127 THEN Raise("struct.error") ELSE OkBytes(Bytes1(v))

PackH(v) ==
    IF v < -32768 \/ v > 32767 THEN Raise("struct.error") ELSE OkBytes(Bytes2(v))

PackI(v) == OkBytes(Bytes4(v))

PackUB(v) ==
    IF v < 0 \/ v > 255 THEN Raise("struct.error") ELSE OkBytes(Bytes1(v))

PackUH(v) ==
    IF v < 0 \/ v > 65535 THEN Raise("struct.error") ELSE OkBytes(Bytes2(v))

\* struct.pack('>q', v) of a 64-bit quantity held as two words.
PackQ(v) == OkBytes(Bytes4(v[1]) \o Bytes4(v[2]))

\* ----------------------------------------------------------- floats
\* A 32-bit pattern below 2^31 with its sign bit set or not, as a signed
\* word.
WithSign(negative, u) == IF negative THEN u + (-2147483647 - 1) ELSE u

\* A signed word without its sign bit.
Low31(w) == IF w < 0 THEN (w + 2147483647) + 1 ELSE w

\* The low 32 bits x * 2^29 of a mantissa whose last three bits are x, as
\* a signed word.
Low3(x) == IF x >= 4 THEN (x - 8) * 536870912 ELSE x * 536870912

\* The position of the highest set bit of m > 0.
RECURSIVE HighBit(_)
HighBit(m) == IF m < 2 THEN 0 ELSE 1 + HighBit(m \div 2)

\* The float a binary32 pattern s denotes, as the binary64 pattern of the
\* same number (struct.unpack('>f') returns a Python float).
Widen(s) ==
    LET negative == s < 0
        u == Low31(s)
        e == u \div 8388608
        m == u % 8388608
    IN IF e = 0 /\ m = 0 THEN <<WithSign(negative, 0), 0>>
       ELSE IF e = 255
       THEN \* infinity, or a NaN, which comes out quiet
            <<WithSign(negative, 2047 * 1048576 + (m \div 8)
                                   + (IF m # 0 /\ m < 4194304
                                      THEN 524288 ELSE 0)),
              Low3(m % 8)>>
       ELSE IF e = 0
       THEN \* subnormal: m * 2^-149, normal as a binary64
            LET p == HighBit(m)
                frac == (m - 2^p) * 2^(23 - p)
            IN <<WithSign(negative, (p + 874) * 1048576 + (frac \div 8)),
                 Low3(frac % 8)>>
       ELSE <<WithSign(negative, (e + 896) * 1048576 + (m \div 8)),
              Low3(m % 8)>>

\* struct.pack('>f', d): the binary64 pattern d rounded to the nearest
\* binary32 (ties to even), as the signed word of its pattern;
\* OverflowError when a finite d rounds to infinity.
Narrow(d) ==
    LET negative == d[1] < 0
        u == Low31(d[1])
        e == u \div 1048576
        m23 == (u % 1048576) * 8 + ((d[2] \div 536870912) % 8)
        rest == d[2] % 536870912
    IN IF e = 2047
       THEN IF m23 = 0 /\ rest = 0
            THEN [st |-> "ok", bits |-> WithSign(negative, 255 * 8388608)]
            ELSE [st |-> "ok",
                  bits |-> WithSign(negative, 255 * 8388608
                              + (IF m23 < 4194304 THEN m23 + 4194304 ELSE m23))]
       ELSE IF e = 0 THEN [st |-> "ok", bits |-> WithSign(negative, 0)]
       ELSE IF e - 896 >= 255 THEN Raise("OverflowError")
       ELSE IF e - 896 >= 1
       THEN LET up == rest > 268435456 \/ (rest = 268435456 /\ m23 % 2 = 1)
                u32 == (e - 896) * 8388608 + m23 + (IF up THEN 1 ELSE 0)
            IN IF u32 >= 255 * 8388608 THEN Raise("OverflowError")
               ELSE [st |-> "ok", bits |-> WithSign(negative, u32)]
       ELSE IF 897 - e > 25 THEN [st |-> "ok", bits |-> WithSign(negative, 0)]
       ELSE LET shift == 897 - e
                sig == 8388608 + m23
                q == sig \div 2^shift
                r == sig % 2^shift
                half == 2^(shift - 1)
                up == \/ r > half
                      \/ r = half /\ rest > 0
                      \/ r = half /\ rest = 0 /\ q % 2 = 1
            IN [st |-> "ok",
                bits |-> WithSign(negative, q + (IF up THEN 1 ELSE 0))]

\* struct.pack('>f', v)
PackF(v) ==
    LET n == Narrow(v)
    IN IF n.st # "ok" THEN n ELSE OkBytes(Bytes4(n.bits))

\* ----------------------------------------------------------- UTF-8
\* str.encode('utf-8') of one code point; <<>> for a surrogate, which
\* raises UnicodeEncodeError.
EncodeChar(c) ==
    IF c < 128 THEN <<c>>
    ELSE IF c < 2048 THEN <<192 + (c \div 64), 128 + (c % 64)>>
    ELSE IF c >= 55296 /\ c <= 57343 THEN <<>>
    ELSE IF c < 65536
        THEN <<224 + (c \div 4096), 128 + ((c \div 64) % 64), 128 + (c % 64)>>
    ELSE <<240 + (c \div 262144), 128 + ((c \div 4096) % 64),
           128 + ((c \div 64) % 64), 128 + (c % 64)>>

RECURSIVE EncodeUtf8(_)
EncodeUtf8(s) ==
    IF s = <<>> THEN OkBytes(<<>>)
    ELSE LET h == EncodeChar(Head(s))
             r == EncodeUtf8(Tail(s))
         IN IF h = <<>> THEN Raise("UnicodeEncodeError")
            ELSE IF r.st # "ok" THEN r
            ELSE OkBytes(h \o r.bytes)

IsCont(b) == b >= 128 /\ b <= 191

\* The length of the UTF-8 sequence that starts b (0: b starts none).
SeqLen(b) ==
    IF b < 128 THEN 1
    ELSE IF b >= 194 /\ b <= 223 THEN 2
    ELSE IF b >= 224 /\ b <= 239 THEN 3
    ELSE IF b >= 240 /\ b <= 244 THEN 4
    ELSE 0

\* Whether the second byte b2 may follow the lead byte b1 (no overlong
\* forms, no surrogates, nothing above U+10FFFF).
SecondOk(b1, b2) ==
    IF b1 = 224 THEN b2 >= 160 /\ b2 <= 191
    ELSE IF b1 = 237 THEN b2 >= 128 /\ b2 <= 159
    ELSE IF b1 = 240 THEN b2 >= 144 /\ b2 <= 191
    ELSE IF b1 = 244 THEN b2 >= 128 /\ b2 <= 143
    ELSE IsCont(b2)

\* bytes.decode('utf-8'), strict.
RECURSIVE DecodeUtf8(_)
DecodeUtf8(b) ==
    IF b = <<>> THEN [st |-> "ok", str |-> <<>>]
    ELSE
    LET n == SeqLen(b[1])
        wellFormed ==
            /\ n > 0
            /\ Len(b) >= n
            /\ n >= 2 => SecondOk(b[1], b[2])
            /\ \A i \in 3..n : IsCont(b[i])
        c == IF n = 1 THEN b[1]
             ELSE IF n = 2 THEN (b[1] - 192) * 64 + (b[2] - 128)
             ELSE IF n = 3
                 THEN (b[1] - 224) * 4096 + (b[2] - 128) * 64 + (b[3] - 128)
             ELSE (b[1] - 240) * 262144 + (b[2] - 128) * 4096
                      + (b[3] - 128) * 64 + (b[4] - 128)
    IN IF ~wellFormed THEN Raise("UnicodeDecodeError")
       ELSE LET r == DecodeUtf8(SubSeq(b, n + 1, Len(b)))
            IN IF r.st # "ok" THEN r
               ELSE [st |-> "ok", str |-> <<c>> \o r.str]

\* ----------------------------------------------------------- the tags
\* A tag is the tuple <<id of its class, value>>, a ListTag the tuple
\* <<LIST, value, list_tag_type>>.
TypeOf(tag) == tag[1]

ValueOf(tag) == tag[2]

ListTypeOf(tag) == tag[3]

ByteTag(v) == <<BYTE, v>>

ShortTag(v) == <<SHORT, v>>

IntTag(v) == <<INT, v>>

LongTag(v) == <<LONG, v>>

FloatTag(v) == <<FLOAT, v>>

DoubleTag(v) == <<DOUBLE, v>>

ByteArrayTag(v) == <<BYTE_ARRAY, v>>

StringTag(v) == <<STRING_TAG, v>>

\* ListTag.__init__(value, tag_type)
ListTag(v, tag_type) == <<LIST, v, tag_type>>

CompoundTag(v) == <<COMPOUND, v>>

IntArrayTag(v) == <<INT_ARRAY, v>>

LongArrayTag(v) == <<LONG_ARRAY, v>>

\* ----------------------------------------------------------- dict
DictKeys(d) == [i \in 1..Len(d) |-> d[i].key]

DictHas(d, k) == \E i \in 1..Len(d) : d[i].key = k

DictIndex(d, k) == CHOOSE i \in 1..Len(d) : d[i].key = k

DictGet(d, k) == d[DictIndex(d, k)].tag

\* d[k] = tag: an existing key keeps its place, a new key goes last.
DictSet(d, k, tag) ==
    IF DictHas(d, k)
    THEN [d EXCEPT ![DictIndex(d, k)] = [key |-> k, tag |-> tag]]
    ELSE Append(d, [key |-> k, tag |-> tag])

\* ----------------------------------------------------------- equality
\* A 64-bit quantity <<hi, lo>> as four 16-bit limbs, high limb first.
Limbs(v) ==
    <<Low31(v[1]) \div 65536 + (IF v[1] < 0 THEN 32768 ELSE 0),
      Low31(v[1]) % 65536,
      Low31(v[2]) \div 65536 + (IF v[2] < 0 THEN 32768 ELSE 0),
      Low31(v[2]) % 65536>>

\* The limbs of -x for the limbs of x, in two's complement.
NegLimbs(m) ==
    LET d == (65535 - m[4]) + 1
        c == (65535 - m[3]) + d \div 65536
        b == (65535 - m[2]) + c \div 65536
        a == (65535 - m[1]) + b \div 65536
    IN <<a % 65536, b % 65536, c % 65536, d % 65536>>

HalfLimbs(m) ==
    <<m[1] \div 2, (m[1] % 2) * 32768 + m[2] \div 2,
      (m[2] % 2) * 32768 + m[3] \div 2, (m[3] % 2) * 32768 + m[4] \div 2>>

\* The number (-1)^neg * m * 2^exp with m odd, or zero.
RECURSIVE Exact(_, _, _)
Exact(neg, m, exp) ==
    IF m = <<0, 0, 0, 0>>
    THEN [is |-> "finite", neg |-> FALSE, m |-> m, exp |-> 0]
    ELSE IF m[4] % 2 = 0 THEN Exact(neg, HalfLimbs(m), exp + 1)
    ELSE [is |-> "finite", neg |-> neg, m |-> m, exp |-> exp]

\* The number a Python value of kind "int" (a word), "long" (two words) or
\* "float" (a binary64 pattern) is; "nan" and the infinities stand apart.
NumberOf(kind, x) ==
    IF kind = "int"
    THEN LET v == <<IF x < 0 THEN -1 ELSE 0, x>>
         IN Exact(x < 0, IF x < 0 THEN NegLimbs(Limbs(v)) ELSE Limbs(v), 0)
    ELSE IF kind = "long"
    THEN Exact(x[1] < 0, IF x[1] < 0 THEN NegLimbs(Limbs(x)) ELSE Limbs(x), 0)
    ELSE LET e == Low31(x[1]) \div 1048576
             frac == Low31(x[1]) % 1048576
         IN IF e = 2047
            THEN [is |-> IF frac = 0 /\ x[2] = 0 THEN "inf" ELSE "nan",
                  neg |-> x[1] < 0, m |-> <<0, 0, 0, 0>>, exp |-> 0]
            ELSE IF e = 0 THEN Exact(x[1] < 0, Limbs(<<frac, x[2]>>), -1074)
            ELSE Exact(x[1] < 0, Limbs(<<frac + 1048576, x[2]>>), e - 1075)

\* The kind of Python value a tag of class id holds.
ValueKind(id) ==
    IF id \in {BYTE, SHORT, INT} THEN "int"
    ELSE IF id = LONG THEN "long"
    ELSE IF id \in {FLOAT, DOUBLE} THEN "float"
    ELSE IF id = STRING_TAG THEN "str"
    ELSE IF id \in {BYTE_ARRAY, INT_ARRAY} THEN "list of int"
    ELSE IF id = LONG_ARRAY THEN "list of long"
    ELSE IF id = LIST THEN "list of tag"
    ELSE "dict"

\* x == y in Python, x of kind kx and y of kind ky. A Tag on either side is
\* compared by its value (Tag.__eq__, which Python also calls reflected when
\* the left side is not a Tag); numbers compare as numbers, whatever their
\* type; a list equals a list with equal elements in order, a dict a dict
\* with the same keys and equal values, a str the same str; values of two
\* different kinds otherwise differ.
RECURSIVE PyEq(_, _, _, _)
PyEq(kx, x, ky, y) ==
    LET numbers == {"int", "long", "float"}
        lists == {"list of int", "list of long", "list of tag"}
        element(k) == IF k = "list of int" THEN "int"
                      ELSE IF k = "list of long" THEN "long" ELSE "tag"
    IN IF kx = "tag" THEN PyEq(ValueKind(x[1]), x[2], ky, y)
       ELSE IF ky = "tag" THEN PyEq(kx, x, ValueKind(y[1]), y[2])
       ELSE IF kx \in numbers /\ ky \in numbers
       THEN /\ NumberOf(kx, x).is # "nan"
            /\ NumberOf(kx, x) = NumberOf(ky, y)
       ELSE IF kx = "str" /\ ky = "str" THEN x = y
       ELSE IF kx \in lists /\ ky \in lists
       THEN /\ Len(x) = Len(y)
            /\ \A i \in 1..Len(x) : PyEq(element(kx), x[i], element(ky), y[i])
       ELSE IF kx = "dict" /\ ky = "dict"
       THEN /\ Len(x) = Len(y)
            /\ \A i \in 1..Len(x) :
                  /\ \E j \in 1..Len(y) : y[j].key = x[i].key
                  /\ PyEq("tag", x[i].tag, "tag",
                          y[CHOOSE j \in 1..Len(y) : y[j].key = x[i].key].tag)
       ELSE FALSE

\* Tag.__eq__(self, other), other a Tag
Tag_eq(self, other) == PyEq("tag", self, "tag", other)

\* ----------------------------------------------------------- serialize
\* bytes(values): ValueError unless every value is in range(0, 256).
BytesOf(values) ==
    IF \E i \in 1..Len(values) : values[i] < 0 \/ values[i] > 255
    THEN Raise("ValueError")
    ELSE OkBytes(values)

\* struct.pack(f'>{length}i', *values)
RECURSIVE PackInts(_)
PackInts(values) ==
    IF values = <<>> THEN OkBytes(<<>>)
    ELSE LET h == PackI(Head(values))
             r == PackInts(Tail(values))
         IN IF h.st # "ok" THEN h
            ELSE IF r.st # "ok" THEN r
            ELSE OkBytes(h.bytes \o r.bytes)

\* struct.pack(f'>{length}q', *values)
RECURSIVE PackLongs(_)
PackLongs(values) ==
    IF values = <<>> THEN OkBytes(<<>>)
    ELSE LET h == PackQ(Head(values))
             r == PackLongs(Tail(values))
         IN IF h.st # "ok" THEN h
            ELSE IF r.st # "ok" THEN r
            ELSE OkBytes(h.bytes \o r.bytes)

ByteArraySerialize(tag) ==
    LET body == BytesOf(ValueOf(tag))
    IN IF body.st # "ok" THEN body
       ELSE OkBytes(Bytes4(Len(ValueOf(tag))) \o body.bytes)

IntArraySerialize(tag) ==
    LET body == PackInts(ValueOf(tag))
    IN IF body.st # "ok" THEN body
       ELSE OkBytes(Bytes4(Len(ValueOf(tag))) \o body.bytes)

LongArraySerialize(tag) ==
    LET body == PackLongs(ValueOf(tag))
    IN IF body.st # "ok" THEN body
       ELSE OkBytes(Bytes4(Len(ValueOf(tag))) \o body.bytes)

StringSerialize(tag) ==
    LET encoded == EncodeUtf8(ValueOf(tag))
    IN IF encoded.st # "ok" THEN encoded
       ELSE LET length == PackUH(Len(encoded.bytes))
            IN IF length.st # "ok" THEN length
               ELSE OkBytes(length.bytes \o encoded.bytes)

RECURSIVE Serialize(_)
\* result += tag.serialize() for each tag of a list, in order.
RECURSIVE SerializeAll(_)
SerializeAll(tags) ==
    IF tags = <<>> THEN OkBytes(<<>>)
    ELSE LET h == Serialize(Head(tags))
         IN IF h.st # "ok" THEN h
            ELSE LET r == SerializeAll(Tail(tags))
                 IN IF r.st # "ok" THEN r
                    ELSE OkBytes(h.bytes \o r.bytes)

\* The element-type byte is the type of the first element, not list_tag_type.
ListSerialize(tag) ==
    IF ValueOf(tag) = <<>> THEN OkBytes(<<END>> \o Bytes4(0))
    ELSE LET body == SerializeAll(ValueOf(tag))
         IN IF body.st # "ok" THEN body
            ELSE OkBytes(<<TypeOf(ValueOf(tag)[1])>> \o Bytes4(Len(ValueOf(tag))) \o body.bytes)

\* One entry per key in dict order: type byte, name, payload.
RECURSIVE SerializeItems(_)
SerializeItems(items) ==
    IF items = <<>> THEN OkBytes(<<>>)
    ELSE LET key_bytes == EncodeUtf8(Head(items).key)
         IN IF key_bytes.st # "ok" THEN key_bytes
            ELSE
            LET length == PackUH(Len(key_bytes.bytes))
            IN IF length.st # "ok" THEN length
               ELSE
               LET payload == Serialize(Head(items).tag)
               IN IF payload.st # "ok" THEN payload
                  ELSE
                  LET r == SerializeItems(Tail(items))
                  IN IF r.st # "ok" THEN r
                     ELSE OkBytes(<<TypeOf(Head(items).tag)>> \o length.bytes
                                    \o key_bytes.bytes \o payload.bytes \o r.bytes)

CompoundSerialize(tag) ==
    LET body == SerializeItems(ValueOf(tag))
    IN IF body.st # "ok" THEN body ELSE OkBytes(body.bytes \o <<END>>)

\* tag.serialize(), dispatched on the tag's class.
Serialize(tag) ==
    CASE TypeOf(tag) = BYTE -> PackB(ValueOf(tag))
      [] TypeOf(tag) = SHORT -> PackH(ValueOf(tag))
      [] TypeOf(tag) = INT -> PackI(ValueOf(tag))
      [] TypeOf(tag) = LONG -> PackQ(ValueOf(tag))
      [] TypeOf(tag) = FLOAT -> PackF(ValueOf(tag))
      [] TypeOf(tag) = DOUBLE -> PackQ(ValueOf(tag))
      [] TypeOf(tag) = BYTE_ARRAY -> ByteArraySerialize(tag)
      [] TypeOf(tag) = STRING_TAG -> StringSerialize(tag)
      [] TypeOf(tag) = LIST -> ListSerialize(tag)
      [] TypeOf(tag) = COMPOUND -> CompoundSerialize(tag)
      [] TypeOf(tag) = INT_ARRAY -> IntArraySerialize(tag)
      [] TypeOf(tag) = LONG_ARRAY -> LongArraySerialize(tag)

\* --------------------------------------------------------- deserialize
\* The scalar decoders: struct.unpack_from at offset, then offset + width.
ByteDeserialize(data, offset) ==
    LET o == UnpackStart(data, offset, 1)
    IN IF o < 0 THEN Raise("struct.error")
       ELSE OkTag(ByteTag(I8(data, o)), offset + 1)

ShortDeserialize(data, offset) ==
    LET o == UnpackStart(data, offset, 2)
    IN IF o < 0 THEN Raise("struct.error")
       ELSE OkTag(ShortTag(I16(data, o)), offset + 2)

IntDeserialize(data, offset) ==
    LET o == UnpackStart(data, offset, 4)
    IN IF o < 0 THEN Raise("struct.error")
       ELSE OkTag(IntTag(I32(data, o)), offset + 4)

LongDeserialize(data, offset) ==
    LET o == UnpackStart(data, offset, 8)
    IN IF o < 0 THEN Raise("struct.error")
       ELSE OkTag(LongTag(I64(data, o)), offset + 8)

FloatDeserialize(data, offset) ==
    LET o == UnpackStart(data, offset, 4)
    IN IF o < 0 THEN Raise("struct.error")
       ELSE OkTag(FloatTag(Widen(I32(data, o))), offset + 4)

DoubleDeserialize(data, offset) ==
    LET o == UnpackStart(data, offset, 8)
    IN IF o < 0 THEN Raise("struct.error")
       ELSE OkTag(DoubleTag(I64(data, o)), offset + 8)

\* The count is not checked: the slice takes what bytes there are (none for
\* a negative count reaching before its own start) and the offset moves by
\* the count, forward or backward.
ByteArrayDeserialize(data, offset) ==
    LET o == UnpackStart(data, offset, 4)
    IN IF o < 0 THEN Raise("struct.error")
       ELSE LET length == I32(data, o)
                start == offset + 4
            IN OkTag(ByteArrayTag(PySlice(data, start, start + length)),
                     start + length)

\* The declared length is not checked either: the slice is cut at the end
\* of the buffer.
StringDeserialize(data, offset) ==
    LET o == UnpackStart(data, offset, 2)
    IN IF o < 0 THEN Raise("struct.error")
       ELSE LET length == U16(data, o)
                start == offset + 2
                value == DecodeUtf8(PySlice(data, start, start + length))
            IN IF value.st # "ok" THEN value
               ELSE OkTag(StringTag(value.str), start + length)

\* Where struct.unpack_from(f'>{length}<w>', data, start) reads length
\* elements of `width` bytes: the 0-based index, or -1 when it raises (a
\* negative length is a bad format; a length greater than the buffer's
\* cannot fit).
UnpackArrayStart(data, start, length, width) ==
    IF length < 0 \/ length > Len(data) THEN -1
    ELSE UnpackStart(data, start, length * width)

IntArrayDeserialize(data, offset) ==
    LET o == UnpackStart(data, offset, 4)
    IN IF o < 0 THEN Raise("struct.error")
       ELSE LET length == I32(data, o)
                start == offset + 4
                e == UnpackArrayStart(data, start, length, 4)
            IN IF e < 0 THEN Raise("struct.error")
               ELSE OkTag(IntArrayTag([i \in 1..length |->
                                          I32(data, e + 4 * (i - 1))]),
                          start + length * 4)

LongArrayDeserialize(data, offset) ==
    LET o == UnpackStart(data, offset, 4)
    IN IF o < 0 THEN Raise("struct.error")
       ELSE LET length == I32(data, o)
                start == offset + 4
                e == UnpackArrayStart(data, start, length, 8)
            IN IF e < 0 THEN Raise("struct.error")
               ELSE OkTag(LongArrayTag([i \in 1..length |->
                                           I64(data, e + 8 * (i - 1))]),
                          start + length * 8)

\* TAG_CLASSES as a lookup that falls back on a default class for an id it
\* has no key for (TAG_CLASSES.get(id, ByteTag)).
TAG_CLASSES_get(id) ==
    IF id \in TagIds THEN [st |-> "ok", cls |-> id]
    ELSE [st |-> "ok", cls |-> BYTE]

\* TAG_CLASSES[id]: the class (named by its id) or KeyError.
TAG_CLASSES(id) ==
    IF id \in TagIds THEN [st |-> "ok", cls |-> id] ELSE Raise("KeyError")

\* tag_class.deserialize(data, offset) for tag_class = TAG_CLASSES[id]. frames
\* holds the <<id, offset>> of the container decodes in progress: entering
\* one of them again is an endless recursion, which Python ends with
\* RecursionError.
RECURSIVE Deserialize(_, _, _, _)

\* TagType(id), the enum member with that value.
TagType(id) ==
    IF id \in TagIds THEN [st |-> "ok", member |-> id] ELSE Raise("ValueError")

\* for _ in range(remaining): tag, offset = tag_class.deserialize(data, offset)
\* and, after the loop, return cls(tags, TagType(tag_type_id)), offset
RECURSIVE ListLoop(_, _, _, _, _, _, _)
ListLoop(tag_class, tag_type_id, data, offset, remaining, tags, frames) ==
    IF remaining <= 0
    THEN LET tag_type == TagType(tag_type_id)
         IN IF tag_type.st # "ok" THEN tag_type
            ELSE OkTag(ListTag(tags, tag_type.member), offset)
    ELSE LET r == Deserialize(tag_class, data, offset, frames)
         IN IF r.st # "ok" THEN r
            ELSE ListLoop(tag_class, tag_type_id, data, r.off, remaining - 1,
                          Append(tags, r.tag), frames)

ListDeserialize(data, offset, frames) ==
    LET o == UnpackStart(data, offset, 1)
    IN IF o < 0 THEN Raise("struct.error")
       ELSE
       LET tag_type_id == U8(data, o)
           o2 == UnpackStart(data, offset + 1, 4)
       IN IF o2 < 0 THEN Raise("struct.error")
          ELSE
          LET length == I32(data, o2)
          IN IF tag_type_id = END \/ length = 0
             THEN OkTag(ListTag(<<>>, END), offset + 5)
             ELSE LET tag_class == TAG_CLASSES(tag_type_id)
                  IN IF tag_class.st # "ok" THEN tag_class
                     ELSE ListLoop(tag_class.cls, tag_type_id, data,
                                   offset + 5, length, <<>>, frames)

\* The while True loop of CompoundTag.deserialize, at its head with the
\* entries read so far. seen holds the offsets the head was at before: the
\* loop's course depends on the offset alone, so being at one of them again
\* is an endless loop.
RECURSIVE CompoundLoop(_, _, _, _, _)
CompoundLoop(data, offset, value, seen, frames) ==
    IF offset \in seen THEN Hang
    ELSE
    LET o == UnpackStart(data, offset, 1)
    IN IF o < 0 THEN Raise("struct.error")
       ELSE
       LET tag_type_id == U8(data, o)
       IN IF tag_type_id = END THEN OkTag(CompoundTag(value), offset + 1)
          ELSE
          LET o2 == UnpackStart(data, offset + 1, 2)
          IN IF o2 < 0 THEN Raise("struct.error")
             ELSE
             LET name_length == U16(data, o2)
                 start == offset + 3
                 name == DecodeUtf8(PySlice(data, start, start + name_length))
             IN IF name.st # "ok" THEN name
                ELSE
                LET tag_class == TAG_CLASSES(tag_type_id)
                IN IF tag_class.st # "ok" THEN tag_class
                   ELSE
                   LET r == Deserialize(tag_class.cls, data,
                                        start + name_length, frames)
                   IN IF r.st # "ok" THEN r
                      ELSE CompoundLoop(data, r.off,
                                        DictSet(value, name.str, r.tag),
                                        seen \cup {offset}, frames)

CompoundDeserialize(data, offset, frames) ==
    CompoundLoop(data, offset, <<>>, {}, frames)

Deserialize(id, data, offset, frames) ==
    CASE id = BYTE -> ByteDeserialize(data, offset)
      [] id = SHORT -> ShortDeserialize(data, offset)
      [] id = INT -> IntDeserialize(data, offset)
      [] id = LONG -> LongDeserialize(data, offset)
      [] id = FLOAT -> FloatDeserialize(data, offset)
      [] id = DOUBLE -> DoubleDeserialize(data, offset)
      [] id = BYTE_ARRAY -> ByteArrayDeserialize(data, offset)
      [] id = STRING_TAG -> StringDeserialize(data, offset)
      [] id = INT_ARRAY -> IntArrayDeserialize(data, offset)
      [] id = LONG_ARRAY -> LongArrayDeserialize(data, offset)
      [] id = LIST ->
            IF <<id, offset>> \in frames THEN Raise("RecursionError")
            ELSE ListDeserialize(data, offset, frames \cup {<<id, offset>>})
      [] id = COMPOUND ->
            IF <<id, offset>> \in frames THEN Raise("RecursionError")
            ELSE CompoundDeserialize(data, offset, frames \cup {<<id, offset>>})

\* cls.deserialize(data, offset), called from outside any decode.
Decode(id, data, offset) == Deserialize(id, data, offset, {})

\* ------------------------------------------------------------ text input
\* The texts of the model are written with digits, '+', '-', '.', ',', ' '
\* and 'x'; the conversions below are those of Python on such texts (no
\* underscores, exponents, "inf" or "nan").
Whitespace == {9, 10, 11, 12, 13, 28, 29, 30, 31, 32, 133, 160}

Digits == 48..57

RECURSIVE LStrip(_)
LStrip(s) ==
    IF s # <<>> /\ Head(s) \in Whitespace THEN LStrip(Tail(s)) ELSE s

RECURSIVE RStrip(_)
RStrip(s) ==
    IF s # <<>> /\ s[Len(s)] \in Whitespace
    THEN RStrip(SubSeq(s, 1, Len(s) - 1)) ELSE s

\* str.strip()
strip(s) == RStrip(LStrip(s))

\* str.split(sep) for a one-character separator
RECURSIVE split(_, _)
split(s, sep) ==
    IF \A i \in DOMAIN s : s[i] # sep THEN <<s>>
    ELSE LET k == CHOOSE i \in DOMAIN s :
                      s[i] = sep /\ \A j \in 1..(i - 1) : s[j] # sep
         IN <<SubSeq(s, 1, k - 1)>> \o split(SubSeq(s, k + 1, Len(s)), sep)

RECURSIVE DigitsValue(_)
DigitsValue(s) ==
    IF s = <<>> THEN 0
    ELSE 10 * DigitsValue(SubSeq(s, 1, Len(s) - 1)) + (s[Len(s)] - 48)

\* int(text)
int(text) ==
    LET s == strip(text)
        signed == s # <<>> /\ s[1] \in {43, 45}
        body == IF signed THEN Tail(s) ELSE s
    IN IF body = <<>> \/ \E i \in DOMAIN body : body[i] \notin Digits
       THEN Raise("ValueError")
       ELSE [st |-> "ok",
             val |-> IF signed /\ s[1] = 45 THEN 0 - DigitsValue(body)
                     ELSE DigitsValue(body)]

RECURSIVE NatStr(_)
NatStr(n) ==
    IF n < 10 THEN <<48 + n>> ELSE NatStr(n \div 10) \o <<48 + (n % 10)>>

\* str(n) for an int n
str(n) == IF n < 0 THEN <<45>> \o NatStr(0 - n) ELSE NatStr(n)

\* The n-bit binary numeral of x, most significant bit first.
RECURSIVE BitsOfNat(_, _)
BitsOfNat(x, n) ==
    IF n = 0 THEN <<>>
    ELSE IF n = 1 THEN <<x % 2>>
    ELSE LET h == n \div 2
         IN BitsOfNat(x \div 2^h, n - h) \o BitsOfNat(x % 2^h, h)

\* The number an unsigned binary numeral denotes.
RECURSIVE NatOfBits(_)
NatOfBits(b) ==
    IF b = <<>> THEN 0
    ELSE IF Len(b) = 1 THEN b[1]
    ELSE LET h == Len(b) \div 2
         IN NatOfBits(SubSeq(b, 1, Len(b) - h)) * 2^h
                + NatOfBits(SubSeq(b, Len(b) - h + 1, Len(b)))

\* The next n binary digits of r / d for 0 <= r < d < 2^23, eight at a
\* time, and what is left.
RECURSIVE Stream(_, _, _)
Stream(r, d, n) ==
    IF n = 0 THEN [bits |-> <<>>, rem |-> r]
    ELSE LET c == IF n < 8 THEN n ELSE 8
             rest == Stream((r * 2^c) % d, d, n - c)
         IN [bits |-> BitsOfNat((r * 2^c) \div d, c) \o rest.bits,
             rem |-> rest.rem]

\* The number of binary digits of r / d, 0 < r < d, before its first 1.
RECURSIVE LeadZeros(_, _)
LeadZeros(r, d) == IF 2 * r >= d THEN 0 ELSE 1 + LeadZeros(2 * r, d)

\* The binary64 pattern after a pattern of the same sign.
NextUp(v) ==
    IF v[2] = -1 THEN <<v[1] + 1, 0>>
    ELSE IF v[2] = 2147483647 THEN <<v[1], -2147483647 - 1>>
    ELSE <<v[1], v[2] + 1>>

\* The binary64 nearest to n / d (ties to even) for integers n >= 0 and
\* 0 < d < 2^23.
DoubleOfRatio(negative, n, d) ==
    IF n = 0 THEN <<WithSign(negative, 0), 0>>
    ELSE
    LET whole == n \div d
        p == IF whole > 0 THEN HighBit(whole) ELSE 0
        z == IF whole > 0 THEN 0 ELSE LeadZeros(n % d, d)
        \* the fraction once the leading 1 has been taken
        r1 == IF whole > 0 THEN n % d ELSE Stream(n % d, d, z + 1).rem
        lead == IF whole > 0 THEN BitsOfNat(whole - 2^p, p) ELSE <<>>
        tail == Stream(r1, d, 53 - Len(lead))
        bits == lead \o tail.bits
        e == IF whole > 0 THEN p ELSE 0 - (z + 1)
        lo32 == SubSeq(bits, 21, 52)
        v == <<WithSign(negative,
                        (1023 + e) * 1048576 + NatOfBits(SubSeq(bits, 1, 20))),
               WithSign(lo32[1] = 1, NatOfBits(Tail(lo32)))>>
        up == bits[53] = 1 /\ (tail.rem # 0 \/ bits[52] = 1)
    IN IF up THEN NextUp(v) ELSE v

\* float(text)
float(text) ==
    LET s == strip(text)
        signed == s # <<>> /\ s[1] \in {43, 45}
        body == IF signed THEN Tail(s) ELSE s
        parts == split(body, 46)
        whole == parts[1]
        frac == IF Len(parts) = 2 THEN parts[2] ELSE <<>>
        digits == whole \o frac
    IN IF \/ Len(parts) > 2
          \/ digits = <<>>
          \/ \E i \in DOMAIN digits : digits[i] \notin Digits
       THEN Raise("ValueError")
       ELSE [st |-> "ok",
             val |-> DoubleOfRatio(signed /\ s[1] = 45, DigitsValue(digits),
                                   10^Len(frac))]

\* float(n) for an int n
FloatOfInt(n) == DoubleOfRatio(n < 0, IF n < 0 THEN 0 - n ELSE n, 1)

\* A Python int as the 64-bit quantity of that value.
LongOf(n) == <<IF n < 0 THEN -1 ELSE 0, n>>

\* ------------------------------------------------------- list methods
\* The outcome of a method that mutates self: self afterwards, and the
\* error if it raised.
Mutated(self) == [st |-> "ok", self |-> self]

Failed(e, self) == [st |-> "raise", err |-> e, self |-> self]

\* ListTag.append with the type check after the insertion.
ListTag_append_then_check(self, item) ==
    LET grown == ListTag(Append(ValueOf(self), item),
                         IF ListTypeOf(self) = NoneType THEN TypeOf(item)
                         ELSE ListTypeOf(self))
    IN IF ListTypeOf(self) # NoneType /\ TypeOf(item) # ListTypeOf(self)
       THEN Failed("TypeError", grown)
       ELSE Mutated(grown)

\* ListTag.append(item)
ListTag_append(self, item) ==
    IF ListTypeOf(self) = NoneType
    THEN Mutated(ListTag(Append(ValueOf(self), item), TypeOf(item)))
    ELSE IF TypeOf(item) # ListTypeOf(self)
    THEN Failed("TypeError", self)
    ELSE Mutated(ListTag(Append(ValueOf(self), item), ListTypeOf(self)))

\* ListTag.__setitem__(key, value): self.value[key] = value
ListTag_setitem(self, key, value) ==
    LET n == Len(ValueOf(self))
    IN IF key < 0 - n \/ key >= n THEN Failed("IndexError", self)
       ELSE Mutated(ListTag(
                [ValueOf(self) EXCEPT ![IF key < 0 THEN key + n + 1
                                         ELSE key + 1] = value],
                ListTypeOf(self)))

\* --------------------------------------------------- compound methods
\* del d[k] for a key the dict has: the other entries keep their order.
DictDel(d, k) ==
    [i \in 1..(Len(d) - 1) |-> IF i < DictIndex(d, k) THEN d[i] ELSE d[i + 1]]

\* compound[key] = value that takes the key out before it is put in: the
\* entry ends up last.
CompoundTag_setitem_last(self, key, value) ==
    Mutated(CompoundTag(
        Append(IF DictHas(ValueOf(self), key) THEN DictDel(ValueOf(self), key)
               ELSE ValueOf(self),
               [key |-> key, tag |-> value])))

\* CompoundTag.__setitem__(key, value): self.value[key] = value
CompoundTag_setitem(self, key, value) ==
    Mutated(CompoundTag(DictSet(ValueOf(self), key, value)))

\* CompoundTag.__delitem__(key): del self.value[key]
CompoundTag_delitem(self, key) ==
    IF DictHas(ValueOf(self), key)
    THEN Mutated(CompoundTag(DictDel(ValueOf(self), key)))
    ELSE Failed("KeyError", self)

\* CompoundTag.__contains__(key)
CompoundTag_contains(self, key) == DictHas(ValueOf(self), key)

\* ----------------------------------------------------- value editing
\* [int(x.strip()) & mask for x in items]; mask 0 stands for no masking.
RECURSIVE IntsOf(_, _, _)
IntsOf(items, mask, skipEmpty) ==
    IF items = <<>> THEN [st |-> "ok", vals |-> <<>>]
    ELSE LET item == strip(Head(items))
         IN IF skipEmpty /\ item = <<>>
            THEN IntsOf(Tail(items), mask, skipEmpty)
            ELSE LET val == int(item)
                     rest == IntsOf(Tail(items), mask, skipEmpty)
                 IN IF val.st # "ok" THEN val
                    ELSE IF rest.st # "ok" THEN rest
                    ELSE [st |-> "ok",
                          vals |-> <<IF mask = 0 THEN val.val
                                     ELSE val.val % (mask + 1)>>
                                   \o rest.vals]

\* The ints of vals as 64-bit quantities.
LongsOf(vals) == [i \in DOMAIN vals |-> LongOf(vals[i])]

\* parse_array_string(value_string, array_type)
parse_array_string(value_string, array_type) ==
    IF strip(value_string) = <<>> THEN [st |-> "ok", vals |-> <<>>]
    ELSE IntsOf(split(value_string, 44),
                IF array_type = BYTE_ARRAY THEN 255 ELSE 0, TRUE)

\* int(value_string) if value_string else 0
IntOrZero(value_string) ==
    IF value_string = <<>> THEN [st |-> "ok", val |-> 0]
    ELSE int(value_string)

\* float(value_string) if value_string else 0.0
FloatOrZero(value_string) ==
    IF value_string = <<>> THEN [st |-> "ok", val |-> <<0, 0>>]
    ELSE float(value_string)

\* update_tag_value that empties an array before it parses the elements.
update_tag_value_cleared(tag, text) ==
    LET value_string == strip(text)
        id == TypeOf(tag)
        n == IntOrZero(value_string)
        x == FloatOrZero(value_string)
        a == parse_array_string(value_string, id)
    IN CASE id = INT ->
              IF n.st # "ok" THEN Failed(n.err, tag)
              ELSE Mutated(IntTag(n.val))
         [] id \in {FLOAT, DOUBLE} ->
              IF x.st # "ok" THEN Failed(x.err, tag)
              ELSE Mutated(<<id, x.val>>)
         [] id = STRING_TAG -> Mutated(StringTag(value_string))
         [] id = BYTE ->
              IF n.st # "ok" THEN Failed(n.err, tag)
              ELSE Mutated(ByteTag(n.val % 256))
         [] id = SHORT ->
              IF n.st # "ok" THEN Failed(n.err, tag)
              ELSE Mutated(ShortTag(n.val % 65536))
         [] id = LONG ->
              IF n.st # "ok" THEN Failed(n.err, tag)
              ELSE Mutated(LongTag(LongOf(n.val)))
         [] id \in {BYTE_ARRAY, INT_ARRAY} ->
              IF a.st # "ok" THEN Failed(a.err, <<id, <<>>>>)
              ELSE Mutated(<<id, a.vals>>)
         [] id = LONG_ARRAY ->
              IF a.st # "ok" THEN Failed(a.err, LongArrayTag(<<>>))
              ELSE Mutated(LongArrayTag(LongsOf(a.vals)))
         [] OTHER -> Mutated(tag)

\* update_tag_value(tag, value_string)
update_tag_value(tag, text) ==
    LET value_string == strip(text)
        id == TypeOf(tag)
        n == IntOrZero(value_string)
        x == FloatOrZero(value_string)
        a == parse_array_string(value_string, id)
    IN CASE id = INT ->
              IF n.st # "ok" THEN Failed(n.err, tag)
              ELSE Mutated(IntTag(n.val))
         [] id \in {FLOAT, DOUBLE} ->
              IF x.st # "ok" THEN Failed(x.err, tag)
              ELSE Mutated(<<id, x.val>>)
         [] id = STRING_TAG -> Mutated(StringTag(value_string))
         [] id = BYTE ->
              IF n.st # "ok" THEN Failed(n.err, tag)
              ELSE Mutated(ByteTag(n.val % 256))
         [] id = SHORT ->
              IF n.st # "ok" THEN Failed(n.err, tag)
              ELSE Mutated(ShortTag(n.val % 65536))
         [] id = LONG ->
              IF n.st # "ok" THEN Failed(n.err, tag)
              ELSE Mutated(LongTag(LongOf(n.val)))
         [] id \in {BYTE_ARRAY, INT_ARRAY} ->
              IF a.st # "ok" THEN Failed(a.err, tag)
              ELSE Mutated(<<id, a.vals>>)
         [] id = LONG_ARRAY ->
              IF a.st # "ok" THEN Failed(a.err, tag)
              ELSE Mutated(LongArrayTag(LongsOf(a.vals)))
         [] OTHER -> Mutated(tag)

\* ------------------------------------------------------ add-tag dialog
\* AddTagDialog.TAG_TYPES, by the classes' tag types.
TAG_TYPES ==
    {BYTE, SHORT, INT, LONG, FLOAT, DOUBLE, STRING_TAG, BYTE_ARRAY, INT_ARRAY,
     LONG_ARRAY, LIST, COMPOUND}

\* The texts the validator on_type_changed sets for current_type lets into
\* the value field.
ValidatorAdmits(current_type, text) ==
    CASE current_type \in {BYTE, SHORT, INT, LONG} ->
             /\ \A i \in DOMAIN text :
                   text[i] \in Digits \/ (i = 1 /\ text[i] \in {43, 45})
         [] current_type \in {FLOAT, DOUBLE} ->
             /\ \A i \in DOMAIN text :
                   \/ text[i] \in Digits \cup {46}
                   \/ i = 1 /\ text[i] \in {43, 45}
             /\ Cardinality({i \in DOMAIN text : text[i] = 46}) <= 1
         [] current_type \in {BYTE_ARRAY, INT_ARRAY, LONG_ARRAY} ->
             \A i \in DOMAIN text :
                 text[i] \in Digits \cup Whitespace \cup {43, 44, 45}
         [] OTHER -> TRUE

\* AddTagDialog.create_tag for the texts in the name and value fields and
\* the class the combo shows: the dialog is accepted with tag_name and
\* created_tag, or a warning is shown and it stays open.
AddTagDialog_create_tag(require_name, name_text, tag_class, text) ==
    LET name == strip(name_text)
        value_text == strip(text)
        n == int(value_text)
        x == float(value_text)
        items == split(value_text, 44)
        a == IntsOf(items, IF tag_class = BYTE_ARRAY THEN 255 ELSE 0, FALSE)
        Accept(tag) == [st |-> "Accepted",
                        tag_name |-> IF require_name THEN name ELSE <<>>,
                        created_tag |-> tag]
        Warning == [st |-> "open"]
    IN IF require_name /\ name = <<>> THEN Warning
       ELSE
       CASE tag_class = BYTE ->
              IF value_text = <<>> THEN Accept(ByteTag(0))
              ELSE IF n.st # "ok" THEN Warning
              ELSE Accept(ByteTag(n.val % 256))
         [] tag_class = SHORT ->
              IF value_text = <<>> THEN Accept(ShortTag(0))
              ELSE IF n.st # "ok" THEN Warning
              ELSE Accept(ShortTag(n.val % 65536))
         [] tag_class = INT ->
              IF value_text = <<>> THEN Accept(IntTag(0))
              ELSE IF n.st # "ok" THEN Warning
              ELSE Accept(IntTag(n.val))
         [] tag_class = LONG ->
              IF value_text = <<>> THEN Accept(LongTag(<<0, 0>>))
              ELSE IF n.st # "ok" THEN Warning
              ELSE Accept(LongTag(LongOf(n.val)))
         [] tag_class \in {FLOAT, DOUBLE} ->
              IF value_text = <<>> THEN Accept(<<tag_class, <<0, 0>>>>)
              ELSE IF x.st # "ok" THEN Warning
              ELSE Accept(<<tag_class, x.val>>)
         [] tag_class = STRING_TAG -> Accept(StringTag(value_text))
         [] tag_class \in {BYTE_ARRAY, INT_ARRAY} ->
              IF value_text = <<>> THEN Accept(<<tag_class, <<>>>>)
              ELSE IF a.st # "ok" THEN Warning
              ELSE Accept(<<tag_class, a.vals>>)
         [] tag_class = LONG_ARRAY ->
              IF value_text = <<>> THEN Accept(LongArrayTag(<<>>))
              ELSE IF a.st # "ok" THEN Warning
              ELSE Accept(LongArrayTag(LongsOf(a.vals)))
         [] tag_class = LIST -> Accept(ListTag(<<>>, NoneType))
         [] tag_class = COMPOUND -> Accept(CompoundTag(<<>>))

\* dialog.exec_() for AddTagDialog(parent, require_name, list_type) and a
\* user who fills the fields and presses Create or Cancel: with a list_type
\* the combo holds that class alone; a Create that ends in a warning leaves
\* the dialog open, and it is then closed by Cancel.
AddTagDialog_exec(require_name, list_type, user) ==
    CHOOSE closed \in {
        IF user.create /\ made.st = "Accepted" THEN made
        ELSE [st |-> "Rejected"]
    : made \in {AddTagDialog_create_tag(
                    require_name, user.name_text,
                    IF list_type # NoneType THEN list_type ELSE user.tag_class,
                    user.value_text)}} : TRUE

\* ------------------------------------------------------ editor handlers
\* What a handler leaves: the tag it worked on, the tag the dialog made if
\* it was added (a sequence of one tag, or of none), and the title of the
\* message box it showed, if any.
Handled(self, new_tag, shown) ==
    [st |-> "ok", self |-> self, new_tag |-> new_tag, shown |-> shown]

\* The handler's try block raised: self as the raise left it.
Raised(e, self) ==
    [st |-> "raise", err |-> e, self |-> self]

\* tag_helpers.can_edit_tag
can_edit_tag(tag) == TypeOf(tag) \notin {LIST, COMPOUND}

\* tag_helpers.can_add_to_tag
can_add_to_tag(tag) ==
    TypeOf(tag) \in {COMPOUND, LIST, BYTE_ARRAY, INT_ARRAY, LONG_ARRAY}

\* PropertyEditor._add_to_compound and TagActionController._create_in_compound
AddToCompound(compound_tag, user) ==
    CHOOSE handled \in {
       IF dialog.st # "Accepted" THEN Handled(compound_tag, <<>>, "none")
       ELSE IF DictHas(ValueOf(compound_tag), dialog.tag_name)
       THEN Handled(compound_tag, <<>>, "Duplicate Key")
       ELSE Handled(CompoundTag(DictSet(ValueOf(compound_tag),
                                        dialog.tag_name, dialog.created_tag)),
                    <<dialog.created_tag>>, "none")
    : dialog \in {AddTagDialog_exec(TRUE, NoneType, user)}} : TRUE

\* PropertyEditor._add_to_list
PropertyEditor_add_to_list(current_tag, user) ==
    LET list_type == IF Len(ValueOf(current_tag)) > 0
                     THEN TypeOf(ValueOf(current_tag)[1]) ELSE NoneType
    IN CHOOSE handled \in {
       IF dialog.st # "Accepted" THEN Handled(current_tag, <<>>, "none")
       ELSE IF list_type # NoneType /\ TypeOf(dialog.created_tag) # list_type
       THEN Handled(current_tag, <<>>, "Type Mismatch")
       ELSE LET r == ListTag_append(current_tag, dialog.created_tag)
            IN IF r.st # "ok" THEN Raised(r.err, r.self)
               ELSE Handled(r.self, <<dialog.created_tag>>, "none")
       : dialog \in {AddTagDialog_exec(FALSE, list_type, user)}} : TRUE

\* TagActionController._create_in_list
TagActionController_create_in_list(list_tag, user) ==
    LET is_empty == \/ Len(ValueOf(list_tag)) = 0
                    \/ ListTypeOf(list_tag) = NoneType
                    \/ ListTypeOf(list_tag) = END
        list_type == IF ~is_empty THEN TypeOf(ValueOf(list_tag)[1])
                     ELSE NoneType
        reset == IF ListTypeOf(list_tag) = END
                 THEN ListTag(ValueOf(list_tag), NoneType) ELSE list_tag
    IN CHOOSE handled \in {
       IF dialog.st # "Accepted" THEN Handled(list_tag, <<>>, "none")
       ELSE IF list_type # NoneType /\ TypeOf(dialog.created_tag) # list_type
       THEN Handled(list_tag, <<>>, "Type Mismatch")
       ELSE LET r == ListTag_append(reset, dialog.created_tag)
            IN IF r.st # "ok" THEN Raised(r.err, r.self)
               ELSE Handled(r.self, <<dialog.created_tag>>, "none")
       : dialog \in {AddTagDialog_exec(FALSE, list_type, user)}} : TRUE

\* The _add_to_*_array and _create_in_*_array methods: QInputDialog.getInt
\* between the bounds given, then array.value.append(value) (for a byte
\* array value & 0xFF). The bounds given for a long array are outside the
\* C int range getInt takes: the binding raises OverflowError when it
\* checks its arguments (user.checked) and narrows them when it does not.
AddToArray(array_tag, user) ==
    IF TypeOf(array_tag) = LONG_ARRAY /\ user.checked
    THEN Raised("OverflowError", array_tag)
    ELSE IF ~user.create THEN Handled(array_tag, <<>>, "none")
    ELSE Handled(<<TypeOf(array_tag),
                   Append(ValueOf(array_tag),
                          CASE TypeOf(array_tag) = BYTE_ARRAY ->
                                   user.number % 256
                            [] TypeOf(array_tag) = INT_ARRAY -> user.number
                            [] TypeOf(array_tag) = LONG_ARRAY ->
                                   LongOf(user.number))>>,
                 <<>>, "none")

\* Exceptions of the try block end in a message box.
Caught(r) ==
    CHOOSE handled \in {
        IF done.st = "raise" THEN Handled(done.self, <<>>, "Error") ELSE done
    : done \in {r}} : TRUE

\* PropertyEditor.add_tag with a tag selected (it returns at once when
\* current_tag is None)
PropertyEditor_add_tag(current_tag, user) ==
    Caught(CASE TypeOf(current_tag) = COMPOUND ->
                    AddToCompound(current_tag, user)
             [] TypeOf(current_tag) = LIST ->
                    PropertyEditor_add_to_list(current_tag, user)
             [] TypeOf(current_tag) \in {BYTE_ARRAY, INT_ARRAY, LONG_ARRAY} ->
                    AddToArray(current_tag, user)
             [] OTHER -> Handled(current_tag, <<>>, "none"))

\* TagActionController.create_tag for a parent_tag that is not None
TagActionController_create_tag(parent_tag, user) ==
    IF ~can_add_to_tag(parent_tag)
    THEN Handled(parent_tag, <<>>, "none")
    ELSE Caught(CASE TypeOf(parent_tag) = COMPOUND ->
                         AddToCompound(parent_tag, user)
                  [] TypeOf(parent_tag) = LIST ->
                         TagActionController_create_in_list(parent_tag, user)
                  [] OTHER -> AddToArray(parent_tag, user))

\* PropertyEditor.apply_edit with a tag selected and text in the value
\* editor
PropertyEditor_apply_edit(current_tag, text) ==
    CHOOSE handled \in {
       IF r.st # "ok"
       THEN Handled(r.self, <<>>,
                    IF r.err = "ValueError" THEN "Invalid Value" ELSE "Error")
       ELSE Handled(r.self, <<>>, "none")
    : r \in {update_tag_value(current_tag, strip(text))}} : TRUE

\* ---------------------------------------------------------------- gzip
\* An exception with the text str() gives for it.
RaiseMsg(e, msg) == [st |-> "raise", err |-> e, msg |-> msg]

\* str(e) for a raised exception: its text, or for the exceptions of the
\* codec, whose texts are not modelled, the name of its class.
StrOf(r) == IF "msg" \in DOMAIN r THEN r.msg ELSE r.err

\* A gzip member this model does not inflate: a Huffman-coded block. The
\* files of the model have none.
Unmodelled == [st |-> "unmodelled"]

\* The bitwise exclusive or of two n-bit numbers.
RECURSIVE Xor(_, _, _)
Xor(a, b, n) ==
    IF n = 1 THEN (a + b) % 2
    ELSE LET h == n \div 2
         IN Xor(a \div 2^h, b \div 2^h, n - h) * 2^h + Xor(a % 2^h, b % 2^h, h)

\* One bit of the CRC-32 division, on a register held as two 16-bit halves.
CrcShift(c) ==
    LET hi == c[1] \div 2
        lo == (c[2] \div 2) + (c[1] % 2) * 32768
    IN IF c[2] % 2 = 1 THEN <<Xor(hi, 60856, 16), Xor(lo, 33568, 16)>>
       ELSE <<hi, lo>>

CrcByte(c, b) ==
    CrcShift(CrcShift(CrcShift(CrcShift(CrcShift(CrcShift(CrcShift(CrcShift(
        <<c[1], Xor(c[2], b, 16)>>))))))))

\* The register after the bytes left, from the register so far.
RECURSIVE CrcUpdate(_)
CrcUpdate(s) ==
    IF s.left = <<>> THEN s.c
    ELSE CrcUpdate([c |-> CrcByte(s.c, Head(s.left)), left |-> Tail(s.left)])

\* struct.pack("<L", zlib.crc32(bytes))
Crc32LE(bytes) ==
    LET c == CrcUpdate([c |-> <<65535, 65535>>, left |-> bytes])
        hi == 65535 - c[1]
        lo == 65535 - c[2]
    IN <<lo % 256, lo \div 256, hi % 256, hi \div 256>>

\* struct.pack("<L", n) and struct.pack("<H", n) for small n >= 0
Size32LE(n) == <<n % 256, (n \div 256) % 256, (n \div 65536) % 256, 0>>

Size16LE(n) == <<n % 256, (n \div 256) % 256>>

TruncatedGzip ==
    RaiseMsg("EOFError",
        "Compressed file ended before the end-of-stream marker was reached")

\* The raw deflate stream at index i of s, made of stored blocks: the bytes
\* it holds and the index after it.
RECURSIVE Inflate(_, _, _)
Inflate(s, i, out) ==
    IF i > Len(s) THEN TruncatedGzip
    ELSE
    LET final == s[i] % 2 = 1
        btype == (s[i] \div 2) % 4
    IN IF btype = 3
       THEN RaiseMsg("zlib.error",
                "Error -3 while decompressing data: invalid block type")
       ELSE IF btype # 0 THEN Unmodelled
       ELSE IF i + 4 > Len(s) THEN TruncatedGzip
       ELSE
       LET len == s[i + 1] + 256 * s[i + 2]
           nlen == s[i + 3] + 256 * s[i + 4]
       IN IF len + nlen # 65535
          THEN RaiseMsg("zlib.error",
                "Error -3 while decompressing data: invalid stored block lengths")
          ELSE IF i + 4 + len > Len(s) THEN TruncatedGzip
          ELSE LET grown == out \o SubSeq(s, i + 5, i + 4 + len)
               IN IF final
                  THEN [st |-> "ok", bytes |-> grown, next |-> i + 5 + len]
                  ELSE Inflate(s, i + 5 + len, grown)

\* The index after the zero-terminated string at index i of s (the end of s
\* ends it too).
RECURSIVE SkipString(_, _)
SkipString(s, i) ==
    IF i > Len(s) THEN i
    ELSE IF s[i] = 0 THEN i + 1
    ELSE SkipString(s, i + 1)

\* The index of the first byte at or after i that is not zero.
RECURSIVE SkipZeros(_, _)
SkipZeros(s, i) ==
    IF i <= Len(s) /\ s[i] = 0 THEN SkipZeros(s, i + 1) ELSE i

\* The index after the optional header fields that start at index i, or 0
\* when s ends inside a field of fixed size.
SkipFields(s, i, flag) ==
    LET extra == (flag \div 4) % 2 = 1
        afterExtra ==
            IF ~extra THEN i
            ELSE IF i + 1 > Len(s) THEN 0
            ELSE IF i + 1 + s[i] + 256 * s[i + 1] > Len(s) THEN 0
            ELSE i + 2 + s[i] + 256 * s[i + 1]
        afterName ==
            IF afterExtra = 0 THEN 0
            ELSE IF (flag \div 8) % 2 = 1 THEN SkipString(s, afterExtra)
            ELSE afterExtra
        afterComment ==
            IF afterName = 0 THEN 0
            ELSE IF (flag \div 16) % 2 = 1 THEN SkipString(s, afterName)
            ELSE afterName
    IN IF afterComment = 0 THEN 0
       ELSE IF (flag \div 2) % 2 = 1
       THEN IF afterComment + 1 > Len(s) THEN 0 ELSE afterComment + 2
       ELSE afterComment

\* The members of a gzip file from index i on, after the bytes out of the
\* members before.
RECURSIVE GzipMembers(_, _, _)
GzipMembers(s, i, out) ==
    IF i > Len(s) THEN [st |-> "ok", bytes |-> out]
    ELSE IF i + 1 > Len(s) \/ s[i] # 31 \/ s[i + 1] # 139
    THEN RaiseMsg("BadGzipFile", "Not a gzipped file")
    ELSE IF i + 9 > Len(s) THEN TruncatedGzip
    ELSE IF s[i + 2] # 8
    THEN RaiseMsg("BadGzipFile", "Unknown compression method")
    ELSE
    LET start == SkipFields(s, i + 10, s[i + 3])
    IN IF start = 0 THEN TruncatedGzip
       ELSE
       LET r == Inflate(s, start, <<>>)
       IN IF r.st # "ok" THEN r
          ELSE IF r.next + 7 > Len(s) THEN TruncatedGzip
          ELSE IF SubSeq(s, r.next, r.next + 3) # Crc32LE(r.bytes)
          THEN RaiseMsg("BadGzipFile", "CRC check failed")
          ELSE IF SubSeq(s, r.next + 4, r.next + 7) # Size32LE(Len(r.bytes))
          THEN RaiseMsg("BadGzipFile", "Incorrect length of data produced")
          ELSE GzipMembers(s, SkipZeros(s, r.next + 8), out \o r.bytes)

\* A file: whether it exists, and its bytes.
File(exists, bytes) == [exists |-> exists, bytes |-> bytes]

\* with gzip.open(filepath, 'rb') as f: data = f.read()
GzipRead(file) ==
    IF ~file.exists
    THEN RaiseMsg("FileNotFoundError", "No such file or directory")
    ELSE GzipMembers(file.bytes, 1, <<>>)

\* with open(filepath, 'rb') as f: data = f.read()
PlainRead(file) ==
    IF ~file.exists
    THEN RaiseMsg("FileNotFoundError", "No such file or directory")
    ELSE [st |-> "ok", bytes |-> file.bytes]

\* What gzip.open(filepath, 'wb') and f.write(data) leave in the file: one
\* member with the file's name in its header and the time of writing. zlib
\* picks the deflate encoding of data; here it is one stored block.
GzipWrite(data, fname, mtime) ==
    <<31, 139, 8, IF fname = <<>> THEN 0 ELSE 8>> \o mtime \o <<2, 255>>
        \o (IF fname = <<>> THEN <<>> ELSE fname \o <<0>>)
        \o <<1>> \o Size16LE(Len(data)) \o Size16LE(65535 - Len(data)) \o data
        \o Crc32LE(data) \o Size32LE(Len(data))

\* ------------------------------------------------------------- NBTFile
\* The bytes NBTFile.save builds for a file of that name and root.
NBTFile_data(name, root) ==
    LET name_bytes == EncodeUtf8(name)
        length == PackUH(Len(name_bytes.bytes))
        body == Serialize(root)
    IN IF name_bytes.st # "ok" THEN name_bytes
       ELSE IF length.st # "ok" THEN length
       ELSE IF body.st # "ok" THEN body
       ELSE OkBytes(<<COMPOUND>> \o length.bytes \o name_bytes.bytes
                        \o body.bytes)

\* except Exception as e: raise Exception(f"Failed to load NBT file: {str(e)}")
FailedToLoad(r) ==
    IF r.st = "raise"
    THEN RaiseMsg("Exception", "Failed to load NBT file: " \o StrOf(r))
    ELSE r

\* NBTFile.load without the two checks of the data's first byte.
NBTFile_load_any_root(file, gzipped) ==
    CHOOSE loaded \in {
    LET bytes == read.bytes
        o == UnpackStart(bytes, 1, 2)
        name_length == U16(bytes, o)
        name == DecodeUtf8(PySlice(bytes, 3, 3 + name_length))
        root == Decode(COMPOUND, bytes, 3 + name_length)
    IN FailedToLoad(
        IF read.st # "ok" THEN read
        ELSE IF o < 0 THEN Raise("struct.error")
        ELSE IF name.st # "ok" THEN name
        ELSE IF root.st # "ok" THEN root
        ELSE [st |-> "ok", name |-> name.str, root |-> root.tag])
    : read \in {IF gzipped THEN GzipRead(file) ELSE PlainRead(file)}} : TRUE

\* NBTFile.load(filepath, gzipped)
NBTFile_load(file, gzipped) ==
    CHOOSE loaded \in {
    LET bytes == read.bytes
        o == UnpackStart(bytes, 1, 2)
        name_length == U16(bytes, o)
        name == DecodeUtf8(PySlice(bytes, 3, 3 + name_length))
        root == Decode(COMPOUND, bytes, 3 + name_length)
    IN FailedToLoad(
        IF read.st # "ok" THEN read
        ELSE IF bytes = <<>> THEN RaiseMsg("ValueError", "File is empty")
        ELSE IF U8(bytes, 0) # COMPOUND
        THEN RaiseMsg("ValueError",
                 "Root tag must be Compound, got " \o ToString(U8(bytes, 0)))
        ELSE IF o < 0 THEN Raise("struct.error")
        ELSE IF name.st # "ok" THEN name
        ELSE IF root.st # "ok" THEN root
        ELSE [st |-> "ok", name |-> name.str, root |-> root.tag])
    : read \in {IF gzipped THEN GzipRead(file) ELSE PlainRead(file)}} : TRUE

\* load_nbt_file with the first attempt only.
load_nbt_file_gzipped(file) == FailedToLoad(NBTFile_load(file, TRUE))

\* load_nbt_file with a second attempt whose failure is swallowed: the caller
\* gets an empty file instead of the error.
load_nbt_file_swallowing(file) ==
    CHOOSE loaded \in {
        IF first.st \in {"ok", "hang", "unmodelled"} THEN first
        ELSE IF second.st = "raise"
        THEN [st |-> "ok", name |-> <<>>, root |-> CompoundTag(<<>>)]
        ELSE second
    : first \in {NBTFile_load(file, TRUE)},
      second \in {NBTFile_load(file, FALSE)}} : TRUE

\* nbt_handler.load_nbt_file(filepath)
load_nbt_file(file) ==
    CHOOSE loaded \in {
        IF first.st \in {"ok", "hang", "unmodelled"} THEN first
        ELSE FailedToLoad(NBTFile_load(file, FALSE))
    : first \in {NBTFile_load(file, TRUE)}} : TRUE

\* NBTFile(root, name): root is a tag, or <<>> for None, and then the file
\* gets an empty Compound.
NBTFile(root, name) ==
    [name |-> name, root |-> IF root = <<>> THEN CompoundTag(<<>>) ELSE root]

\* except Exception as e: raise Exception(f"Failed to save NBT file: {str(e)}")
FailedToSave(r) ==
    IF r.st = "raise"
    THEN [st |-> "raise", err |-> "Exception",
          msg |-> "Failed to save NBT file: " \o StrOf(r), file |-> r.file]
    ELSE r

\* NBTFile.save that opens the file for writing before it builds the bytes:
\* when the root does not serialize the file is there, and empty.
NBTFile_save_opening_first(nbt_file, file, gzipped, fname, mtime) ==
    CHOOSE saved \in {
        FailedToSave(
            IF built.st # "ok"
            THEN [st |-> "raise", err |-> built.err, file |-> File(TRUE, <<>>)]
            ELSE [st |-> "ok",
                  file |-> File(TRUE, IF gzipped
                                      THEN GzipWrite(built.bytes, fname, mtime)
                                      ELSE built.bytes)])
    : built \in {NBTFile_data(nbt_file.name, nbt_file.root)}} : TRUE

\* nbt_file.save(filepath, gzipped): the bytes are built first; only then is
\* the file opened for writing and written, gzipped (under the name fname,
\* at the time mtime) or as they are. The outcome comes with the file the
\* path names afterwards.
NBTFile_save(nbt_file, file, gzipped, fname, mtime) ==
    CHOOSE saved \in {
        FailedToSave(
            IF built.st # "ok"
            THEN [st |-> "raise", err |-> built.err, file |-> file]
            ELSE [st |-> "ok",
                  file |-> File(TRUE, IF gzipped
                                      THEN GzipWrite(built.bytes, fname, mtime)
                                      ELSE built.bytes)])
    : built \in {NBTFile_data(nbt_file.name, nbt_file.root)}} : TRUE

\* nbt_handler.save_nbt_file(nbt_file, filepath, compressed)
save_nbt_file(nbt_file, file, compressed, fname, mtime) ==
    FailedToSave(NBTFile_save(nbt_file, file, compressed, fname, mtime))

\* nbt_handler.validate_nbt_format(nbt_file), for a file whose root is a tag
\* or, set to None after construction, <<>>.
validate_nbt_format(nbt_file) ==
    IF nbt_file.root = <<>>
    THEN [valid |-> FALSE, errors |-> <<"NBT file has no root tag">>]
    ELSE CHOOSE validated \in {
            IF serialized.st = "raise"
            THEN [valid |-> FALSE,
                  errors |-> <<"Invalid NBT structure: " \o StrOf(serialized)>>]
            ELSE [valid |-> TRUE, errors |-> <<>>]
         : serialized \in {Serialize(nbt_file.root)}} : TRUE

\* str.lower(), for the code points below 256.
lower(s) ==
    [i \in 1..Len(s) |->
        IF s[i] \in 65..90 \/ (s[i] \in 192..222 /\ s[i] # 215)
        THEN s[i] + 32 ELSE s[i]]

\* os.path.basename(path): what follows the last "/".
RECURSIVE basename(_)
basename(path) ==
    IF path = <<>> \/ path[Len(path)] = 47 THEN <<>>
    ELSE Append(basename(SubSeq(path, 1, Len(path) - 1)), path[Len(path)])

\* s.endswith(suffix)
endswith(s, suffix) ==
    /\ Len(suffix) <= Len(s)
    /\ SubSeq(s, Len(s) - Len(suffix) + 1, Len(s)) = suffix

\* part in s, for strings
Within(part, s) ==
    \E i \in 0..(Len(s) - Len(part)) : SubSeq(s, i + 1, i + Len(part)) = part

\* The names validate_game_compatibility looks for: "level.dat", ".dat",
\* "playerdata", "Data", "DataVersion" and "Version".
LevelDat == <<108, 101, 118, 101, 108, 46, 100, 97, 116>>

DotDat == <<46, 100, 97, 116>>

PlayerData == <<112, 108, 97, 121, 101, 114, 100, 97, 116, 97>>

DataKey == <<68, 97, 116, 97>>

VersionKey == <<86, 101, 114, 115, 105, 111, 110>>

DataVersionKey == DataKey \o VersionKey

\* The warnings of validate_game_compatibility for a level.dat.
LevelWarnings(root) ==
    IF root = <<>> \/ TypeOf(root) # COMPOUND
    THEN <<"level.dat root should be a Compound tag">>
    ELSE IF ~CompoundTag_contains(root, DataKey)
    THEN <<"level.dat missing 'Data' tag">>
    ELSE IF TypeOf(DictGet(ValueOf(root), DataKey)) = COMPOUND
    THEN LET data_tag == DictGet(ValueOf(root), DataKey)
         IN (IF ~CompoundTag_contains(data_tag, DataVersionKey)
             THEN <<"level.dat missing 'DataVersion' tag">> ELSE <<>>)
            \o (IF ~CompoundTag_contains(data_tag, VersionKey)
                THEN <<"level.dat missing 'Version' tag">> ELSE <<>>)
    ELSE <<>>

\* Its warnings for a player data file.
PlayerWarnings(root) ==
    IF root = <<>> \/ TypeOf(root) # COMPOUND
    THEN <<"Player data file root should be a Compound tag">>
    ELSE (IF ~CompoundTag_contains(root, DataVersionKey)
          THEN <<"Player data file missing 'DataVersion' tag">> ELSE <<>>)
         \o (IF Len(ValueOf(root)) = 0
             THEN <<"Player data file appears to be empty">> ELSE <<>>)

\* nbt_handler.validate_game_compatibility(nbt_file, filepath)
validate_game_compatibility(nbt_file, filepath) ==
    LET filename == lower(basename(filepath))
        warnings ==
            IF filename = LevelDat THEN LevelWarnings(nbt_file.root)
            ELSE IF endswith(filename, DotDat)
                    /\ Within(PlayerData, lower(filepath))
            THEN PlayerWarnings(nbt_file.root)
            ELSE <<>>
    IN [valid |-> Len(warnings) = 0, errors |-> warnings]

\* validate_nbt_file that reports the file invalid when the game checks
\* have warnings.
validate_nbt_file_strict(nbt_file, filepath) ==
    LET format == validate_nbt_format(nbt_file)
        game == validate_game_compatibility(nbt_file, filepath)
    IN IF ~format.valid THEN format
       ELSE [valid |-> game.valid, errors |-> game.errors]

\* nbt_handler.validate_nbt_file(nbt_file, filepath)
validate_nbt_file(nbt_file, filepath) ==
    LET format == validate_nbt_format(nbt_file)
    IN IF ~format.valid THEN [valid |-> FALSE, errors |-> format.errors]
       ELSE [valid |-> format.valid,
             errors |-> validate_game_compatibility(nbt_file, filepath).errors]

\* ---------------------------------------------------------- main window
\* file_operations.handle_file_open(filepath), with the file at the path
handle_file_open(file) ==
    CHOOSE opened \in {
        IF loaded.st = "ok"
        THEN [nbt_file |-> <<[name |-> loaded.name, root |-> loaded.root]>>,
              error |-> <<>>]
        ELSE [nbt_file |-> <<>>,
              error |-> <<"Failed to open file: " \o StrOf(loaded)>>]
    : loaded \in {load_nbt_file(file)}} : TRUE

\* handle_file_save that writes the bytes as they are.
handle_file_save_plain(nbt_file, file, compressed, fname, mtime) ==
    CHOOSE saved \in {
        IF r.st = "ok"
        THEN [success |-> TRUE, error |-> <<>>, file |-> r.file]
        ELSE [success |-> FALSE,
              error |-> <<"Failed to save file: " \o StrOf(r)>>,
              file |-> r.file]
    : r \in {save_nbt_file(nbt_file, file, FALSE, fname, mtime)}} : TRUE

\* file_operations.handle_file_save(nbt_file, filepath, compressed), with
\* the file at the path, the name gzip takes from the path and the time of
\* writing; the outcome comes with the file the path names afterwards.
handle_file_save(nbt_file, file, compressed, fname, mtime) ==
    CHOOSE saved \in {
        IF r.st = "ok"
        THEN [success |-> TRUE, error |-> <<>>, file |-> r.file]
        ELSE [success |-> FALSE,
              error |-> <<"Failed to save file: " \o StrOf(r)>>,
              file |-> r.file]
    : r \in {save_nbt_file(nbt_file, file, compressed, fname, mtime)}} : TRUE

\* file_operations.get_validation_results(nbt_file, filepath)
get_validation_results(nbt_file, filepath) ==
    validate_nbt_file(nbt_file, filepath)

\* file_operations.show_validation_results: the message box shown.
show_validation_results(is_valid, issues) ==
    IF is_valid /\ Len(issues) = 0 THEN "information: Success"
    ELSE IF is_valid THEN "warning: Saved with Warnings"
    ELSE "critical: Validation Failed"

\* What a handler of the main window left: the window's fields, the files,
\* and what it did, in order (writes, validations, message boxes).
Left(w, fs, events) == [window |-> w, disk |-> fs, events |-> events]

\* open_file that takes the path picked whether or not the file loaded.
open_file_eager(w, fs, filepath) ==
    IF filepath = <<>> THEN Left(w, fs, <<>>)
    ELSE CHOOSE left \in {
            IF opened.error # <<>>
            THEN Left([w EXCEPT !.current_file_path = <<filepath>>], fs,
                      <<"handle_file_open", "critical: Error">>)
            ELSE Left([current_nbt_file |-> opened.nbt_file,
                       current_file_path |-> <<filepath>>],
                      fs, <<"handle_file_open">>)
         : opened \in {handle_file_open(fs[filepath])}} : TRUE

\* NBTEditorMainWindow.open_file, the user picking filepath in the dialog
\* ("" when the dialog is cancelled).
open_file(w, fs, filepath) ==
    IF filepath = <<>> THEN Left(w, fs, <<>>)
    ELSE CHOOSE left \in {
            IF opened.error # <<>>
            THEN Left(w, fs, <<"handle_file_open", "critical: Error">>)
            ELSE Left([current_nbt_file |-> opened.nbt_file,
                       current_file_path |-> <<filepath>>],
                      fs, <<"handle_file_open">>)
         : opened \in {handle_file_open(fs[filepath])}} : TRUE

\* _handle_save_result after get_validation_results: what both do, in order.
Validated(nbt_file, filepath) ==
    LET results == get_validation_results(nbt_file, filepath)
    IN <<"get_validation_results",
         show_validation_results(results.valid, results.errors)>>

\* save_file_as that validates first and writes only a file without issues.
save_file_as_checked(w, fs, filepath, mtime) ==
    IF w.current_nbt_file = <<>> THEN Left(w, fs, <<"warning: No File">>)
    ELSE IF filepath = <<>> THEN Left(w, fs, <<>>)
    ELSE CHOOSE left \in {
            IF shown # "information: Success"
            THEN Left(w, fs, <<"get_validation_results", shown>>)
            ELSE CHOOSE written \in {
                    IF ~saved.success
                    THEN Left(w, [fs EXCEPT ![filepath] = saved.file],
                              <<"get_validation_results", shown,
                                "handle_file_save", "critical: Error">>)
                    ELSE Left([w EXCEPT !.current_file_path = <<filepath>>],
                              [fs EXCEPT ![filepath] = saved.file],
                              <<"get_validation_results", shown,
                                "handle_file_save">>)
                 : saved \in {handle_file_save(w.current_nbt_file[1],
                                  fs[filepath], TRUE, basename(filepath),
                                  mtime)}} : TRUE
         : shown \in {Validated(w.current_nbt_file[1], filepath)[2]}} : TRUE

\* NBTEditorMainWindow.save_file_as, the user picking filepath in the
\* dialog ("" when it is cancelled), the file being written at mtime.
save_file_as(w, fs, filepath, mtime) ==
    IF w.current_nbt_file = <<>> THEN Left(w, fs, <<"warning: No File">>)
    ELSE IF filepath = <<>> THEN Left(w, fs, <<>>)
    ELSE CHOOSE left \in {
            IF ~saved.success
            THEN Left(w, [fs EXCEPT ![filepath] = saved.file],
                      <<"handle_file_save", "critical: Error">>)
            ELSE Left([w EXCEPT !.current_file_path = <<filepath>>],
                      [fs EXCEPT ![filepath] = saved.file],
                      <<"handle_file_save">>
                          \o Validated(w.current_nbt_file[1], filepath))
         : saved \in {handle_file_save(w.current_nbt_file[1], fs[filepath],
                          TRUE, basename(filepath), mtime)}} : TRUE

\* NBTEditorMainWindow.save_file; filepath is what the user picks if the
\* Save As dialog opens.
save_file(w, fs, filepath, mtime) ==
    IF w.current_nbt_file = <<>> THEN Left(w, fs, <<"warning: No File">>)
    ELSE IF w.current_file_path = <<>>
    THEN save_file_as(w, fs, filepath, mtime)
    ELSE CHOOSE left \in {
            IF ~saved.success
            THEN Left(w, [fs EXCEPT ![w.current_file_path[1]] = saved.file],
                      <<"handle_file_save", "critical: Error">>)
            ELSE Left(w, [fs EXCEPT ![w.current_file_path[1]] = saved.file],
                      <<"handle_file_save">>
                          \o Validated(w.current_nbt_file[1],
                                       w.current_file_path[1]))
         : saved \in {handle_file_save(w.current_nbt_file[1],
                          fs[w.current_file_path[1]], TRUE,
                          basename(w.current_file_path[1]), mtime)}} : TRUE

\* NBTEditorMainWindow.create_new_file
create_new_file(w, fs) ==
    Left([current_nbt_file |-> <<NBTFile(CompoundTag(<<>>), <<>>)>>,
          current_file_path |-> <<>>], fs, <<>>)

\* ------------------------------------------------------------ inputs
\* The bounds of the inputs the specifications draw.
MaxStrLen == 2

MaxArrayLen == 2

MaxListLen == 2

MaxBodyLen == 3

MaxDeclared == 3

MaxOffset == 1

\* All sequences over S of length at most n.
SeqsUpTo(S, n) == UNION {[1..k -> S] : k \in 0..n}

\* Payloads within the ranges of the data model.
ByteVals == {-128, -1, 0, 127}

ShortVals == {-32768, 255}

IntVals == {-1, 16909060}

\* 1 and -1 as 64-bit quantities.
LongVals == {<<0, 1>>, <<-1, -1>>}

\* 0.0 and 1.5, which a binary32 holds exactly.
FloatVals == {<<0, 0>>, <<1073217536, 0>>}

\* 1.0 and 0.1.
DoubleVals == {<<1072693248, 0>>, <<1069128089, -1717986918>>}

\* "a" and e-acute, which takes two bytes in UTF-8.
Chars == {97, 233}

Strings == SeqsUpTo(Chars, MaxStrLen)

Keys == {<<97>>, <<98, 233>>}

Leaves ==
    {ByteTag(v) : v \in ByteVals} \cup {ShortTag(v) : v \in ShortVals}
        \cup {IntTag(v) : v \in IntVals} \cup {LongTag(v) : v \in LongVals}
        \cup {FloatTag(v) : v \in FloatVals}
        \cup {DoubleTag(v) : v \in DoubleVals}
        \cup {StringTag(v) : v \in Strings}
        \cup {ByteArrayTag(v) : v \in SeqsUpTo({-1, 0, 127}, MaxArrayLen)}
        \cup {IntArrayTag(v) : v \in SeqsUpTo({-1, 1}, MaxArrayLen)}
        \cup {LongArrayTag(v) : v \in SeqsUpTo({<<0, 1>>}, MaxArrayLen)}

\* The tags that stand as children of the containers.
Children ==
    {ByteTag(-1), ShortTag(255), IntTag(-1), LongTag(<<0, 1>>),
     FloatTag(<<1073217536, 0>>), DoubleTag(<<1069128089, -1717986918>>), StringTag(<<233>>),
     ByteArrayTag(<<0, 127>>), ByteArrayTag(<<-1>>), IntArrayTag(<<-1>>),
     LongArrayTag(<<<<0, 1>>>>)}

\* The homogeneous lists over S: an empty list has no element type yet
\* (None, or END once it went through the wire), the others have their
\* elements' type.
ListsOver(S) ==
    {ListTag(<<>>, NoneType), ListTag(<<>>, END)}
        \cup UNION {{ListTag(v, id) :
                        v \in UNION {[1..k -> {c \in S : TypeOf(c) = id}] :
                                        k \in 1..MaxListLen}} :
                    id \in {TypeOf(c) : c \in S}}

\* The compounds of at most n entries with keys of Keys and values of S.
CompoundsOver(S, n) ==
    {CompoundTag(<<>>)}
        \cup {CompoundTag(<<[key |-> k, tag |-> c]>>) : k \in Keys, c \in S}
        \cup (IF n < 2 THEN {}
              ELSE {CompoundTag(<<[key |-> ks[1], tag |-> c1],
                                  [key |-> ks[2], tag |-> c2]>>) :
                       ks \in {x \in Keys \X Keys : x[1] # x[2]},
                       c1 \in S, c2 \in S})

\* The valid tag trees: every leaf, the lists and compounds of children,
\* and the compounds holding one of those.
ValidTags ==
    Leaves \cup ListsOver(Children) \cup CompoundsOver(Children, 2)
        \cup CompoundsOver(ListsOver(Children) \cup CompoundsOver(Children, 1),
                           1)

\* Bytes that stand before and after an encoding in a buffer.
Prefixes == {<<>>, <<10>>, <<0, 255>>}

Suffixes == {<<>>, <<0>>, <<1, 97>>}

\* Raw buffers: a header (a declared length, a count, a list header) and a
\* body of arbitrary bytes: 0 (END, a zero), 1 (BYTE, a one), "a" and 255
\* (no tag type; -1 as a count byte).
RawBytes == {0, 1, 97, 255}

Bodies == SeqsUpTo(RawBytes, MaxBodyLen)

\* Counts an array or list header declares: negative, zero, small, huge.
Counts == {-2, -1, 0, 1, 2, 2130706432}

\* Element-type bytes of a list header: END, known ids, unknown ids.
ListIds == {0, 1, 8, 13, 255}

\* Type bytes TAG_CLASSES has no key for.
UnknownIds == {13, 99, 255}

ScalarIds == {BYTE, SHORT, INT, LONG, FLOAT, DOUBLE}

ArrayIds == {BYTE_ARRAY, INT_ARRAY, LONG_ARRAY}

\* The headers a raw buffer for class id may start with.
Headers(id) ==
    IF id = STRING_TAG THEN {Bytes2(n) : n \in 0..MaxDeclared}
    ELSE IF id \in ArrayIds THEN {Bytes4(c) : c \in Counts}
    ELSE IF id = LIST THEN {<<e>> \o Bytes4(c) : e \in ListIds, c \in Counts}
    ELSE {<<>>}

\* --------------------------------------------------------------- state
VARIABLES
    pc,       \* the step the run is at
    origin,   \* where the run's input came from (a serialized tree, a raw
              \* buffer, a decoded or dialog-made tag, a file on disk, ...)
    cls,      \* the class whose deserialize is called (a TagType id)
    tree,     \* the tag that is serialized, or the tag selected in the editor
    data,     \* the byte buffer, or the bytes of the file on disk
    offset,   \* the offset decoding starts at
    result,   \* the outcome of the last call
    before,   \* the selected tag as the last editor operation found it
    op,       \* the last editor operation and its arguments
    window,   \* the main window's current_nbt_file and current_file_path
    disk      \* the files at the paths the main window opens and saves

vars ==
    <<pc, origin, cls, tree, data, offset, result, before, op, window, disk>>

Nothing == [st |-> "none"]

\* NBTEditorMainWindow.__init__: no file, no path (None is <<>>, a file or
\* a path p is <<p>>).
NoWindow == [current_nbt_file |-> <<>>, current_file_path |-> <<>>]

\* No paths, for the runs without a main window.
NoDisk == <<>>

NoOp == [name |-> "none"]

\* A valid tag tree, not yet serialized.
InitTree ==
    /\ pc = "tree"
    /\ origin = "tree"
    /\ tree \in ValidTags
    /\ cls = TypeOf(tree)
    /\ data = <<>>
    /\ offset = 0
    /\ result = Nothing
    /\ before = Nothing
    /\ op = NoOp
    /\ window = NoWindow
    /\ disk = NoDisk

\* A raw buffer for one of the decoders.
InitRaw ==
    /\ pc = "wire"
    /\ origin = "raw"
    /\ tree = Nothing
    /\ cls \in TagIds \ {END}
    /\ \E header \in Headers(cls), body \in Bodies : data = header \o body
    /\ offset \in 0..MaxOffset
    /\ result = Nothing
    /\ before = Nothing
    /\ op = NoOp
    /\ window = NoWindow
    /\ disk = NoDisk

\* A Compound body whose valid entries (those of tree) are followed by an
\* entry with an unknown type byte, or by a List entry with an unknown
\* element-type byte and a count that is not zero.
InitBadEntry ==
    /\ pc = "wire"
    /\ origin = "bad_entry"
    /\ tree \in CompoundsOver({ByteTag(-1), StringTag(<<233>>)}, 1)
    /\ cls = COMPOUND
    /\ \E id \in UnknownIds, name \in {<<>>, <<97>>}, count \in Counts \ {0},
          inList \in BOOLEAN, tail \in SeqsUpTo(RawBytes, 2) :
          data = SerializeItems(ValueOf(tree)).bytes
                    \o (IF inList THEN <<LIST>> ELSE <<id>>)
                    \o Bytes2(Len(name)) \o name
                    \o (IF inList THEN <<id>> \o Bytes4(count) ELSE <<>>)
                    \o tail
    /\ offset = 0
    /\ result = Nothing
    /\ before = Nothing
    /\ op = NoOp
    /\ window = NoWindow
    /\ disk = NoDisk

\* A Compound body whose first entry is an array with a negative count, 5
\* to 9 bytes back from the end of the count.
InitBackward ==
    /\ pc = "wire"
    /\ origin = "backward"
    /\ tree = Nothing
    /\ cls = COMPOUND
    /\ \E id \in ArrayIds, name \in {<<>>, <<97>>}, back \in 5..9,
          tail \in SeqsUpTo({0}, 1) :
          data = <<id>> \o Bytes2(Len(name)) \o name \o Bytes4(-back) \o tail
    /\ offset = 0
    /\ result = Nothing
    /\ before = Nothing
    /\ op = NoOp
    /\ window = NoWindow
    /\ disk = NoDisk

\* tree.serialize(), its bytes placed in a buffer after a prefix and before
\* a suffix.
Encode ==
    /\ pc = "tree"
    /\ LET r == Serialize(tree)
       IN /\ result' = r
          /\ IF r.st = "ok"
             THEN \E prefix \in Prefixes, suffix \in Suffixes :
                     /\ data' = prefix \o r.bytes \o suffix
                     /\ offset' = Len(prefix)
                     /\ pc' = "wire"
             ELSE /\ pc' = "encode_failed"
                  /\ UNCHANGED <<data, offset>>
    /\ UNCHANGED <<origin, cls, tree, before, op, window, disk>>

\* TAG_CLASSES[cls].deserialize(data, offset)
DecodeWire ==
    /\ pc = "wire"
    /\ result' = Decode(cls, data, offset)
    /\ pc' = "decoded"
    /\ UNCHANGED <<origin, cls, tree, data, offset, before, op, window, disk>>

CodecInit == InitTree \/ InitRaw \/ InitBadEntry \/ InitBackward

CodecNext == Encode \/ DecodeWire

SpecCodec == CodecInit /\ [][CodecNext]_vars

\* ---------------------------------------------------------- the editor
\* The most elements a list, an array or a compound is grown to.
MaxElems == 2

\* The integers typed into a value field.
IntInputs == {-1, 7, 200, 300}

\* "", "x", "1.5", "1,2" and "1,x"
OtherTexts ==
    {<<>>, <<120>>, <<49, 46, 53>>, <<49, 44, 50>>, <<49, 44, 120>>}

ValueTexts == {str(n) : n \in IntInputs} \cup OtherTexts

\* "", "a" and " b"
NameTexts == {<<>>, <<97>>, <<32, 98>>}

\* The tags handed to ListTag.append and ListTag.__setitem__.
Items == {IntTag(1), ShortTag(255), ListTag(<<>>, NoneType)}

\* The trees whose encodings the edited tags are decoded from.
EditSeeds ==
    {ListTag(<<>>, END), ListTag(<<IntTag(1)>>, INT),
     ListTag(<<ShortTag(255)>>, SHORT),
     CompoundTag(<<>>), CompoundTag(<<[key |-> <<97>>, tag |-> ByteTag(-1)]>>),
     ByteTag(-1), ShortTag(255), IntTag(-1), LongTag(<<0, 1>>),
     FloatTag(<<1073217536, 0>>), DoubleTag(<<1072693248, 0>>),
     StringTag(<<97>>), ByteArrayTag(<<1>>), IntArrayTag(<<-1>>),
     LongArrayTag(<<>>)}

\* The classes picked in the dialog when adding to a compound.
CompoundChoices == {BYTE, STRING_TAG, LIST, COMPOUND}

\* A user who cancels.
Cancels ==
    [create |-> FALSE, tag_class |-> BYTE, name_text |-> <<>>,
     value_text |-> <<>>, number |-> 0, checked |-> FALSE]

\* What the user can do in the dialogs an add to tag opens.
Users(tag) ==
    CASE TypeOf(tag) = COMPOUND ->
             {Cancels} \cup
             [create : {TRUE}, tag_class : CompoundChoices,
              name_text : NameTexts, value_text : ValueTexts, number : {0},
              checked : {FALSE}]
      [] TypeOf(tag) = LIST ->
             {Cancels} \cup
             {u \in [create : {TRUE}, tag_class : TAG_TYPES,
                     name_text : {<<>>}, value_text : ValueTexts,
                     number : {0}, checked : {FALSE}] :
                 \* a list with elements fixes the class and its validator
                 Len(ValueOf(tag)) > 0 =>
                     /\ u.tag_class = TypeOf(ValueOf(tag)[1])
                     /\ ValidatorAdmits(u.tag_class, u.value_text)}
      [] TypeOf(tag) \in {BYTE_ARRAY, INT_ARRAY, LONG_ARRAY} ->
             [create : BOOLEAN, tag_class : {BYTE}, name_text : {<<>>},
              value_text : {<<>>},
              number : IF TypeOf(tag) = BYTE_ARRAY THEN {0, 200}
                       ELSE {0, 200, -1},
              checked : IF TypeOf(tag) = LONG_ARRAY THEN BOOLEAN
                        ELSE {FALSE}]
      [] OTHER -> {Cancels}

\* The number of children of a tag that has children.
Size(tag) == Len(ValueOf(tag))

\* A tag decoded from a file is selected.
InitDecoded ==
    /\ pc = "edit"
    /\ origin = "decoded"
    /\ \E seed \in EditSeeds :
          /\ cls = TypeOf(seed)
          /\ data = Serialize(seed).bytes
          /\ tree = Decode(cls, data, 0).tag
    /\ offset = 0
    /\ result = Nothing
    /\ before = tree
    /\ op = NoOp
    /\ window = NoWindow
    /\ disk = NoDisk

\* A tag the add-tag dialog made from an empty value field is selected.
InitDialog ==
    /\ pc = "edit"
    /\ origin = "dialog"
    /\ cls \in TAG_TYPES
    /\ tree = AddTagDialog_create_tag(FALSE, <<>>, cls, <<>>).created_tag
    /\ data = <<>>
    /\ offset = 0
    /\ result = Nothing
    /\ before = tree
    /\ op = NoOp
    /\ window = NoWindow
    /\ disk = NoDisk

\* tree.append(item)
ListAppend ==
    /\ pc = "edit"
    /\ TypeOf(tree) = LIST
    /\ Size(tree) < MaxElems
    /\ \E item \in Items :
          \E r \in {ListTag_append(tree, item)} :
             /\ tree' = r.self
             /\ result' = r
             /\ op' = [name |-> "append", item |-> item]
    /\ before' = tree
    /\ pc' = "done"
    /\ UNCHANGED <<origin, cls, data, offset, window, disk>>

\* tree[key] = value
ListSetItem ==
    /\ pc = "edit"
    /\ TypeOf(tree) = LIST
    /\ \E key \in (0 - MaxElems)..MaxElems, value \in Items :
          \E r \in {ListTag_setitem(tree, key, value)} :
             /\ tree' = r.self
             /\ result' = r
             /\ op' = [name |-> "__setitem__", key |-> key, item |-> value]
    /\ before' = tree
    /\ pc' = "done"
    /\ UNCHANGED <<origin, cls, data, offset, window, disk>>

\* The Apply button of the property editor, enabled for the tags
\* can_edit_tag allows.
ApplyEdit ==
    /\ pc = "edit"
    /\ can_edit_tag(tree)
    /\ \E text \in ValueTexts :
          \E r \in {PropertyEditor_apply_edit(tree, text)} :
             /\ tree' = r.self
             /\ result' = r
             /\ op' = [name |-> "apply_edit", text |-> text]
    /\ before' = tree
    /\ pc' = "done"
    /\ UNCHANGED <<origin, cls, data, offset, window, disk>>

\* The Add button of the property editor, enabled for the tags
\* can_add_to_tag allows.
AddTag ==
    /\ pc = "edit"
    /\ can_add_to_tag(tree)
    /\ Size(tree) < MaxElems
    /\ \E user \in Users(tree) :
          \E r \in {PropertyEditor_add_tag(tree, user)} :
             /\ tree' = r.self
             /\ result' = r
             /\ op' = [name |-> "add_tag", user |-> user]
    /\ before' = tree
    /\ pc' = "done"
    /\ UNCHANGED <<origin, cls, data, offset, window, disk>>

\* The Add Tag entry of the tree's context menu.
CreateTag ==
    /\ pc = "edit"
    /\ can_add_to_tag(tree) => Size(tree) < MaxElems
    /\ \E user \in Users(tree) :
          \E r \in {TagActionController_create_tag(tree, user)} :
             /\ tree' = r.self
             /\ result' = r
             /\ op' = [name |-> "create_tag", user |-> user]
    /\ before' = tree
    /\ pc' = "done"
    /\ UNCHANGED <<origin, cls, data, offset, window, disk>>

\* MainWindow.on_tag_selected: the tag is selected in the tree, and the
\* property editor is set to it.
on_tag_selected ==
    /\ pc = "done"
    /\ pc' = "edit"
    /\ before' = tree
    /\ op' = NoOp
    /\ result' = Nothing
    /\ UNCHANGED <<origin, cls, tree, data, offset, window, disk>>

EditInit == InitDecoded \/ InitDialog

EditNext ==
    ListAppend \/ ListSetItem \/ ApplyEdit \/ AddTag \/ CreateTag
        \/ on_tag_selected

SpecEdit == EditInit /\ [][EditNext]_vars

\* ----------------------------------------------------------- the files
\* The roots of the files of the model.
FileRoots ==
    {CompoundTag(<<>>),
     CompoundTag(<<[key |-> <<97>>, tag |-> ByteTag(-1)]>>),
     CompoundTag(<<[key |-> <<98, 233>>, tag |-> StringTag(<<233>>)],
                   [key |-> <<97>>, tag |-> ListTag(<<IntTag(1)>>, INT)]>>),
     CompoundTag(<<[key |-> <<>>, tag |-> CompoundTag(<<>>)]>>),
     CompoundTag(<<[key |-> <<97>>, tag |-> ListTag(<<>>, END)]>>)}

\* The names of their roots.
RootNames == {<<>>, <<97>>}

\* The names gzip puts in the header ("" and "a") and the times of writing.
GzipNames == {<<>>, <<97>>}

Mtimes == {<<0, 0, 0, 0>>, <<245, 152, 231, 106>>}

\* The plain bytes of the files.
PlainFiles ==
    {NBTFile_data(name, root).bytes : name \in RootNames, root \in FileRoots}

\* The same, gzipped.
GzipFiles ==
    {GzipWrite(plain, fname, mtime) :
        plain \in PlainFiles, fname \in GzipNames, mtime \in Mtimes}

\* b with its last byte, or its bytes from the k-th on, cut off.
Cut(b, k) == SubSeq(b, 1, k - 1)

\* b with its k-th byte replaced by 255 minus it.
Flip(b, k) == [b EXCEPT ![k] = 255 - b[k]]

\* Files that are neither: empty, cut short, with a byte changed, with
\* bytes after the end, or gzip files of such bytes.
DamagedFiles ==
    {<<>>, <<31>>, <<31, 139>>, <<0>>}
      \cup {Cut(b, Len(b)) : b \in PlainFiles \cup GzipFiles}
      \cup {Flip(b, 1) : b \in PlainFiles}
      \cup {b \o <<0, 0>> : b \in PlainFiles \cup GzipFiles}
      \cup {b \o <<1>> : b \in GzipFiles}
      \cup {Flip(g, Len(g) - 4) : g \in GzipFiles}
      \cup {Flip(g, Len(g)) : g \in GzipFiles}
      \cup {Flip(g, 3) : g \in GzipFiles}
      \cup {GzipWrite(<<>>, <<>>, <<0, 0, 0, 0>>)}
      \cup {GzipWrite(Cut(b, Len(b)), <<>>, <<0, 0, 0, 0>>) : b \in PlainFiles}
      \cup {GzipWrite(Flip(b, 1), <<>>, <<0, 0, 0, 0>>) : b \in PlainFiles}

\* The file the path names, as the variables hold it.
TheFile == File(origin # "missing", data)

\* A file at the path, or none.
FileInit ==
    /\ pc = "file"
    /\ \/ origin = "plain" /\ data \in PlainFiles
       \/ origin = "gzip" /\ data \in GzipFiles
       \/ origin = "damaged" /\ data \in DamagedFiles
       \/ origin = "missing" /\ data = <<>>
    /\ cls = COMPOUND
    /\ tree = Nothing
    /\ offset = 0
    /\ result = Nothing
    /\ before = Nothing
    /\ op = NoOp
    /\ window = NoWindow
    /\ disk = NoDisk

\* The roots of the files saved: those above, a root with a Float set to
\* 0.1 in the editor, one with a list an Int and then a Short were added to,
\* and one with a ByteArray that holds -1.
SaveRoots ==
    FileRoots \cup
    {CompoundTag(<<[key |-> <<97>>,
                    tag |-> FloatTag(<<1069128089, -1717986918>>)]>>),
     CompoundTag(<<[key |-> <<97>>,
                    tag |-> ListTag(<<IntTag(1), ShortTag(255)>>, INT)]>>),
     CompoundTag(<<[key |-> <<97>>, tag |-> ByteArrayTag(<<-1>>)]>>)}

\* save_nbt_file(nbt_file, filepath, compressed)
SaveNbtFile ==
    /\ pc = "file"
    /\ \E name \in RootNames, root \in SaveRoots, compressed \in BOOLEAN,
          fname \in GzipNames, mtime \in Mtimes :
          /\ compressed \/ (fname = <<>> /\ mtime = <<0, 0, 0, 0>>)
          /\ \E r \in {save_nbt_file(NBTFile(root, name), TheFile, compressed,
                                      fname, mtime)} :
                /\ result' = IF r.st = "ok" THEN [st |-> "ok"]
                             ELSE RaiseMsg(r.err, r.msg)
                /\ data' = r.file.bytes
                /\ origin' = IF r.st = "ok" THEN "saved"
                             ELSE IF r.file.exists /\ origin = "missing"
                             THEN "created"
                             ELSE origin
          /\ before' = [name |-> name, root |-> root,
                        compressed |-> compressed, file |-> TheFile]
    /\ op' = [name |-> "save_nbt_file"]
    /\ pc' = "saved"
    /\ UNCHANGED <<cls, tree, offset, window, disk>>

\* load_nbt_file(filepath)
LoadNbtFile ==
    /\ pc \in {"file", "saved"}
    /\ result' = load_nbt_file(TheFile)
    /\ op' = [name |-> "load_nbt_file"]
    /\ pc' = "loaded"
    /\ UNCHANGED <<origin, cls, tree, data, offset, before, window, disk>>

\* NBTFile.load(filepath, gzipped)
NBTFileLoad ==
    /\ pc \in {"file", "saved"}
    /\ \E gzipped \in BOOLEAN :
          /\ result' = NBTFile_load(TheFile, gzipped)
          /\ op' = [name |-> "NBTFile.load", gzipped |-> gzipped]
    /\ pc' = "loaded"
    /\ UNCHANGED <<origin, cls, tree, data, offset, before, window, disk>>

FileNext == LoadNbtFile \/ NBTFileLoad

SpecFile == FileInit /\ [][FileNext]_vars

\* -------------------------------------------------- saving and loading
\* The path saved to names no file, or one of these: an empty file, the
\* plain file of an empty root, and a gzip file of it.
FilesBefore ==
    {<<>>,
     NBTFile_data(<<>>, CompoundTag(<<>>)).bytes,
     GzipWrite(NBTFile_data(<<>>, CompoundTag(<<>>)).bytes, <<97>>,
               <<245, 152, 231, 106>>)}

SaveInit ==
    /\ pc = "file"
    /\ \/ origin = "before" /\ data \in FilesBefore
       \/ origin = "missing" /\ data = <<>>
    /\ cls = COMPOUND
    /\ tree = Nothing
    /\ offset = 0
    /\ result = Nothing
    /\ before = Nothing
    /\ op = NoOp
    /\ window = NoWindow
    /\ disk = NoDisk

\* The roots of the files validated: those saved, roots that are no
\* Compound, and None.
ValidatedRoots ==
    SaveRoots \cup {IntTag(1), ListTag(<<>>, NoneType), ByteArrayTag(<<-1>>),
                    <<>>}

\* validate_nbt_format(nbt_file)
ValidateNbtFormat ==
    /\ pc = "file"
    /\ \E name \in RootNames, root \in ValidatedRoots :
          /\ result' = validate_nbt_format([name |-> name, root |-> root])
          /\ before' = [name |-> name, root |-> root]
    /\ op' = [name |-> "validate_nbt_format"]
    /\ pc' = "validated"
    /\ UNCHANGED <<origin, cls, tree, data, offset, window, disk>>

\* The paths validated: "level.dat", "w/LEVEL.DAT", "playerdata/a.dat", "PlayerData/b.DAT",
\* "a.dat", "level.dat/x.nbt", "playerdata.dat", ""
Paths ==
    {<<108, 101, 118, 101, 108, 46, 100, 97, 116>>,
     <<119, 47, 76, 69, 86, 69, 76, 46, 68, 65, 84>>,
     <<112, 108, 97, 121, 101, 114, 100, 97, 116, 97, 47, 97, 46, 100, 97, 116>>,
     <<80, 108, 97, 121, 101, 114, 68, 97, 116, 97, 47, 98, 46, 68, 65, 84>>,
     <<97, 46, 100, 97, 116>>,
     <<108, 101, 118, 101, 108, 46, 100, 97, 116, 47, 120, 46, 110, 98, 116>>,
     <<112, 108, 97, 121, 101, 114, 100, 97, 116, 97, 46, 100, 97, 116>>,
     <<>>}

\* Roots the game checks tell apart: with and without Data, DataVersion and
\* Version.
GameRoots ==
    {CompoundTag(<<[key |-> DataKey, tag |-> CompoundTag(<<>>)]>>),
     CompoundTag(<<[key |-> DataKey, tag |-> CompoundTag(
         <<[key |-> VersionKey, tag |-> IntTag(1)]>>)]>>),
     CompoundTag(<<[key |-> DataKey, tag |-> CompoundTag(
         <<[key |-> DataVersionKey, tag |-> IntTag(1)]>>)]>>),
     CompoundTag(<<[key |-> DataKey, tag |-> CompoundTag(
         <<[key |-> DataVersionKey, tag |-> IntTag(1)],
           [key |-> VersionKey, tag |-> IntTag(1)]>>)]>>),
     CompoundTag(<<[key |-> DataKey, tag |-> IntTag(1)]>>),
     CompoundTag(<<[key |-> DataVersionKey, tag |-> IntTag(1)]>>),
     CompoundTag(<<[key |-> DataKey, tag |-> CompoundTag(
         <<[key |-> VersionKey, tag |-> ByteArrayTag(<<-1>>)]>>)]>>)}

\* validate_nbt_file(nbt_file, filepath)
ValidateNbtFile ==
    /\ pc = "file"
    /\ \E name \in RootNames, root \in ValidatedRoots \cup GameRoots,
          filepath \in Paths :
          /\ result' = validate_nbt_file([name |-> name, root |-> root],
                                         filepath)
          /\ before' = [name |-> name, root |-> root]
          /\ op' = [name |-> "validate_nbt_file", filepath |-> filepath]
    /\ pc' = "validated"
    /\ UNCHANGED <<origin, cls, tree, data, offset, window, disk>>

SaveNext ==
    SaveNbtFile \/ LoadNbtFile \/ NBTFileLoad \/ ValidateNbtFormat
        \/ ValidateNbtFile

SpecSave == SaveInit /\ [][SaveNext]_vars

\* ------------------------------------------------- tag action controller
\* What a method of the controller returned, with the parent as it left it
\* and the title of the message box it showed, if any. A parent_key is <<>>
\* for None and <<k>> for the key or index k; so is a name returned.
Returned(self, ret, shown) ==
    [st |-> "ok", self |-> self, ret |-> ret, shown |-> shown]

\* tag_helpers.can_delete_from_parent
can_delete_from_parent(parent_tag) == TypeOf(parent_tag) = COMPOUND

\* TagActionController.delete_tag(tag_name, parent_tag, parent_key), the
\* user answering the question with reply. The keys of a List's children
\* are ints.
delete_tag(parent_tag, parent_key, reply) ==
    IF ~can_delete_from_parent(parent_tag)
    THEN Returned(parent_tag, FALSE, "none")
    ELSE IF parent_key = <<>> THEN Returned(parent_tag, FALSE, "none")
    ELSE IF reply # "Yes" THEN Returned(parent_tag, FALSE, "none")
    ELSE IF TypeOf(parent_tag) = COMPOUND
    THEN LET deleted == CompoundTag_delitem(parent_tag, parent_key[1])
         IN IF deleted.st = "ok" THEN Returned(deleted.self, TRUE, "none")
            ELSE Returned(deleted.self, FALSE, "Error")
    ELSE IF TypeOf(parent_tag) = LIST
    THEN IF 0 <= parent_key[1] /\ parent_key[1] < Len(ValueOf(parent_tag))
         THEN Returned(
                  ListTag([i \in 1..(Len(ValueOf(parent_tag)) - 1) |->
                              IF i <= parent_key[1] THEN ValueOf(parent_tag)[i]
                              ELSE ValueOf(parent_tag)[i + 1]],
                          ListTypeOf(parent_tag)),
                  TRUE, "none")
         ELSE Returned(parent_tag, FALSE, "Error")
    ELSE Returned(parent_tag, FALSE, "none")

\* rename_tag returning (False, None)
NotRenamed(self, shown) ==
    Returned(self, [success |-> FALSE, new_name |-> <<>>], shown)

\* rename_tag without the check for a tag of the new name.
rename_tag_over(parent_tag, parent_key, user) ==
    LET new_name == strip(user.new_name)
        key == parent_key[1]
    IN IF TypeOf(parent_tag) # COMPOUND THEN NotRenamed(parent_tag, "none")
       ELSE IF parent_key = <<>> THEN NotRenamed(parent_tag, "none")
       ELSE IF ~CompoundTag_contains(parent_tag, key)
       THEN NotRenamed(parent_tag, "none")
       ELSE IF ~user.ok THEN NotRenamed(parent_tag, "none")
       ELSE IF new_name = <<>> THEN NotRenamed(parent_tag, "Invalid Name")
       ELSE IF new_name = key
       THEN Returned(parent_tag,
                     [success |-> TRUE, new_name |-> <<new_name>>], "none")
       ELSE Returned(
                CompoundTag_setitem(CompoundTag_delitem(parent_tag, key).self,
                    new_name, DictGet(ValueOf(parent_tag), key)).self,
                [success |-> TRUE, new_name |-> <<new_name>>], "none")

\* rename_tag that puts the tag under the new name and leaves the old entry.
rename_tag_keeping(parent_tag, parent_key, user) ==
    LET r == rename_tag_over(parent_tag, parent_key, user)
    IN IF r.ret.success /\ r.ret.new_name # parent_key
       THEN Returned(CompoundTag_setitem(parent_tag, r.ret.new_name[1],
                         DictGet(ValueOf(parent_tag), parent_key[1])).self,
                     r.ret, r.shown)
       ELSE r

\* rename_tag that gives the entry its new name where it is.
rename_tag_in_place(parent_tag, parent_key, user) ==
    LET r == rename_tag_over(parent_tag, parent_key, user)
        d == ValueOf(parent_tag)
    IN IF /\ r.ret.success
          /\ r.ret.new_name # parent_key
          /\ ~CompoundTag_contains(parent_tag, r.ret.new_name[1])
       THEN Returned(CompoundTag(
                [d EXCEPT ![DictIndex(d, parent_key[1])].key =
                              r.ret.new_name[1]]),
                r.ret, r.shown)
       ELSE IF r.ret.success /\ r.ret.new_name # parent_key
       THEN NotRenamed(parent_tag, "Duplicate Key")
       ELSE r

\* TagActionController.rename_tag(tag_name, parent_tag, parent_key), the
\* user leaving the input dialog with the text user.new_name and OK or
\* Cancel (user.ok).
rename_tag(parent_tag, parent_key, user) ==
    LET new_name == strip(user.new_name)
        key == parent_key[1]
        tag_value == DictGet(ValueOf(parent_tag), key)
        deleted == CompoundTag_delitem(parent_tag, key)
    IN IF TypeOf(parent_tag) # COMPOUND THEN NotRenamed(parent_tag, "none")
       ELSE IF parent_key = <<>> THEN NotRenamed(parent_tag, "none")
       ELSE IF ~CompoundTag_contains(parent_tag, key)
       THEN NotRenamed(parent_tag, "none")
       ELSE IF ~user.ok THEN NotRenamed(parent_tag, "none")
       ELSE IF new_name = <<>> THEN NotRenamed(parent_tag, "Invalid Name")
       ELSE IF new_name = key
       THEN Returned(parent_tag,
                     [success |-> TRUE, new_name |-> <<new_name>>], "none")
       ELSE IF CompoundTag_contains(parent_tag, new_name)
       THEN NotRenamed(parent_tag, "Duplicate Key")
       ELSE IF deleted.st # "ok" THEN NotRenamed(deleted.self, "Error")
       ELSE Returned(CompoundTag_setitem(deleted.self, new_name,
                                         tag_value).self,
                     [success |-> TRUE, new_name |-> <<new_name>>], "none")

\* ---------------------------------------------------------- tag objects
\* Tags as objects: a heap gives each object its tag, or <<>> before the
\* object is made; a container holds references <<o>> to its children, so
\* that one object can be told from an equal one (`is`).
MaxObjects == 3

Objects == 1..MaxObjects

\* The objects in the slots of a container, slot by slot.
SlotsOf(tag) ==
    IF tag = <<>> THEN <<>>
    ELSE IF TypeOf(tag) = COMPOUND
    THEN [i \in 1..Len(ValueOf(tag)) |-> ValueOf(tag)[i].tag[1]]
    ELSE IF TypeOf(tag) = LIST
    THEN [i \in 1..Len(ValueOf(tag)) |-> ValueOf(tag)[i][1]]
    ELSE <<>>

\* The objects reached from those of S in one to n steps.
RECURSIVE Descendants(_, _, _)
Descendants(heap, S, n) ==
    IF n = 0 THEN {}
    ELSE LET kids == UNION {{SlotsOf(heap[o])[i] :
                                i \in 1..Len(SlotsOf(heap[o]))} : o \in S}
         IN kids \cup Descendants(heap, kids, n - 1)

\* The slots that hold object o.
Holders(heap, o) ==
    {<<parent, i>> \in Objects \X (1..MaxObjects) :
        /\ i <= Len(SlotsOf(heap[parent]))
        /\ SlotsOf(heap[parent])[i] = o}

\* What create_tag and move_tag returned, with the heap as they left it and
\* the title of the message box shown, if any.
Relinked(heap, ret, shown) ==
    [st |-> "ok", heap |-> heap, ret |-> ret, shown |-> shown]

\* (False, None) and (False, None, None)
NotRelinked(heap, shown) ==
    Relinked(heap, [success |-> FALSE, new_key |-> <<>>], shown)

\* TagActionController.create_tag(parent_tag), the user leaving the add-tag
\* dialog with a name and a new tag of class dialog.cls, or cancelling it.
\* The new tag is object new_tag. The objects of the heap are Compounds,
\* Lists and Bytes: the branches for arrays add no tag.
create_tag(heap, parent_tag, dialog, new_tag) ==
    LET parent == heap[parent_tag]
        made == IF dialog.cls = COMPOUND THEN CompoundTag(<<>>)
                ELSE IF dialog.cls = LIST THEN ListTag(<<>>, NoneType)
                ELSE <<dialog.cls, 0>>
        is_empty == \/ Len(ValueOf(parent)) = 0
                    \/ ListTypeOf(parent) \in {NoneType, END}
        list_type == IF is_empty THEN <<>>
                     ELSE <<TypeOf(heap[ValueOf(parent)[1][1]])>>
    IN IF TypeOf(parent) = COMPOUND
       THEN IF ~dialog.accepted THEN NotRelinked(heap, "none")
            ELSE IF CompoundTag_contains(parent, dialog.name)
            THEN NotRelinked(heap, "Duplicate Key")
            ELSE Relinked([heap EXCEPT
                              ![new_tag] = made,
                              ![parent_tag] = CompoundTag_setitem(
                                  parent, dialog.name, <<new_tag>>).self],
                          [success |-> TRUE, new_key |-> <<dialog.name>>],
                          "none")
       ELSE IF TypeOf(parent) = LIST
       THEN IF ~dialog.accepted THEN NotRelinked(heap, "none")
            ELSE IF list_type # <<>> /\ <<dialog.cls>> # list_type
            THEN NotRelinked(heap, "Type Mismatch")
            ELSE IF ListTypeOf(parent) \notin {NoneType, END, dialog.cls}
            THEN NotRelinked(heap, "Error")
            ELSE Relinked([heap EXCEPT
                              ![new_tag] = made,
                              ![parent_tag] = ListTag(
                                  Append(ValueOf(parent), <<new_tag>>),
                                  dialog.cls)],
                          [success |-> TRUE, new_key |-> <<>>], "none")
       ELSE NotRelinked(heap, "none")

\* TagActionController.move_tag(tag_name, source_parent, source_key,
\* target_parent, target_key), the parents being objects of the heap and
\* the user leaving the input dialog, if it opens, with user.text and OK or
\* Cancel (user.ok).
move_tag(heap, source_parent, source_key, target_parent, target_key, user) ==
    LET source == heap[source_parent]
        target == heap[target_parent]
        key == IF target_key = <<>> /\ source_parent # target_parent
               THEN strip(user.text) ELSE target_key[1]
        tag_value == DictGet(ValueOf(source), source_key[1])
        deleted == [heap EXCEPT ![source_parent] =
                       CompoundTag_delitem(source, source_key[1]).self]
        moved == [deleted EXCEPT ![target_parent] =
                     CompoundTag_setitem(deleted[target_parent], key,
                                         tag_value).self]
    IN IF TypeOf(source) # COMPOUND THEN NotRelinked(heap, "none")
       ELSE IF TypeOf(target) # COMPOUND THEN NotRelinked(heap, "none")
       ELSE IF source_key = <<>> THEN NotRelinked(heap, "none")
       ELSE IF ~CompoundTag_contains(source, source_key[1])
       THEN NotRelinked(heap, "none")
       ELSE IF source_parent = target_parent
       THEN IF target_key = <<>> \/ target_key = source_key
            THEN Relinked(heap, [success |-> TRUE, new_key |-> source_key],
                          "none")
            ELSE IF CompoundTag_contains(target, key)
            THEN NotRelinked(heap, "Duplicate Key")
            ELSE Relinked(moved, [success |-> TRUE, new_key |-> <<key>>],
                          "none")
       ELSE IF target_key = <<>> /\ ~user.ok THEN NotRelinked(heap, "none")
       ELSE IF target_key = <<>> /\ key = <<>>
       THEN NotRelinked(heap, "Invalid Name")
       ELSE IF CompoundTag_contains(target, key)
       THEN NotRelinked(heap, "Duplicate Key")
       ELSE Relinked(moved, [success |-> TRUE, new_key |-> <<key>>], "none")

\* ------------------------------------------------------ the main window
\* "a.nbt"
ANbt == <<97, 46, 110, 98, 116>>

\* The paths the user picks in the file dialogs.
SessionPaths == {LevelDat, ANbt}

\* The time the files of a session are written at.
SessionTime == <<0, 0, 0, 0>>

\* What is at the paths at the start: at level.dat the plain bytes of a
\* root with Data and Version and nothing at a.nbt, or one byte at level.dat
\* and a gzip file at a.nbt.
SessionDisks ==
    {[path \in SessionPaths |->
        IF path = LevelDat
        THEN File(TRUE, NBTFile_data(<<>>, CompoundTag(
                <<[key |-> DataKey, tag |-> CompoundTag(
                    <<[key |-> VersionKey, tag |-> IntTag(1)]>>)]>>)).bytes)
        ELSE File(FALSE, <<>>)],
     [path \in SessionPaths |->
        IF path = LevelDat
        THEN File(TRUE, <<31>>)
        ELSE File(TRUE, GzipWrite(NBTFile_data(<<97>>, CompoundTag(
                <<[key |-> <<97>>, tag |-> ByteTag(-1)]>>)).bytes, ANbt,
                SessionTime))]}

\* The main window as it opens.
InitWindow ==
    /\ pc = "window"
    /\ origin = "window"
    /\ window = NoWindow
    /\ disk \in SessionDisks
    /\ cls = COMPOUND
    /\ tree = Nothing
    /\ data = <<>>
    /\ offset = 0
    /\ result = Nothing
    /\ before = Nothing
    /\ op = NoOp

\* File > Open
OpenFile ==
    /\ pc = "window"
    /\ \E filepath \in SessionPaths \cup {<<>>} :
          \E r \in {open_file(window, disk, filepath)} :
             /\ window' = r.window
             /\ disk' = r.disk
             /\ result' = r
             /\ op' = [name |-> "open_file", filepath |-> filepath]
    /\ before' = [window |-> window, disk |-> disk]
    /\ UNCHANGED <<pc, origin, cls, tree, data, offset>>

\* File > Save
SaveFile ==
    /\ pc = "window"
    /\ \E filepath \in
             IF window.current_nbt_file # <<>> /\ window.current_file_path = <<>>
             THEN SessionPaths \cup {<<>>} ELSE {<<>>} :
          \E r \in {save_file(window, disk, filepath, SessionTime)} :
             /\ window' = r.window
             /\ disk' = r.disk
             /\ result' = r
             /\ op' = [name |-> "save_file", filepath |-> filepath]
    /\ before' = [window |-> window, disk |-> disk]
    /\ UNCHANGED <<pc, origin, cls, tree, data, offset>>

\* File > Save As
SaveFileAs ==
    /\ pc = "window"
    /\ \E filepath \in SessionPaths \cup {<<>>} :
          \E r \in {save_file_as(window, disk, filepath, SessionTime)} :
             /\ window' = r.window
             /\ disk' = r.disk
             /\ result' = r
             /\ op' = [name |-> "save_file_as", filepath |-> filepath]
    /\ before' = [window |-> window, disk |-> disk]
    /\ UNCHANGED <<pc, origin, cls, tree, data, offset>>

\* File > New
CreateNewFile ==
    /\ pc = "window"
    /\ \E r \in {create_new_file(window, disk)} :
          /\ window' = r.window
          /\ disk' = r.disk
          /\ result' = r
    /\ op' = [name |-> "create_new_file"]
    /\ before' = [window |-> window, disk |-> disk]
    /\ UNCHANGED <<pc, origin, cls, tree, data, offset>>

\* Apply in the property editor, on a child of the root the editor can
\* edit: the child is changed in place, the window's fields are not.
EditValue ==
    /\ pc = "window"
    /\ window.current_nbt_file # <<>>
    /\ LET nbt_file == window.current_nbt_file[1]
           entries == ValueOf(nbt_file.root)
       IN \E i \in 1..Len(entries), text \in {<<45, 49>>} :
             /\ can_edit_tag(entries[i].tag)
             /\ \E r \in {PropertyEditor_apply_edit(entries[i].tag, text)} :
                   /\ window' =
                         [window EXCEPT !.current_nbt_file =
                             <<[nbt_file EXCEPT !.root = CompoundTag(
                                 [entries EXCEPT ![i].tag = r.self])]>>]
                   /\ result' = Left(window', disk, <<>>)
             /\ op' = [name |-> "apply_edit", text |-> text]
    /\ before' = [window |-> window, disk |-> disk]
    /\ UNCHANGED <<pc, origin, cls, tree, data, offset, disk>>

WindowNext ==
    OpenFile \/ SaveFile \/ SaveFileAs \/ CreateNewFile \/ EditValue

SpecWindow == InitWindow /\ [][WindowNext]_vars

\* ------------------------------------------------- the tree of objects
ShapeKeys == {<<97>>, <<98>>}

\* An empty root, and a root with a Compound under "a".
ShapeHeaps ==
    {[o \in Objects |-> IF o = 1 THEN CompoundTag(<<>>) ELSE <<>>],
     [o \in Objects |->
        IF o = 1 THEN CompoundTag(<<[key |-> <<97>>, tag |-> <<2>>]>>)
        ELSE IF o = 2 THEN CompoundTag(<<>>)
        ELSE <<>>]}

\* The tags of the tree widget: the root, object 1, and what it reaches.
Shown == {1} \cup Descendants(tree, {1}, MaxObjects)

\* The keys and indices of a tag's children, and None.
KeysOf(tag) ==
    {<<>>} \cup
    (IF TypeOf(tag) = COMPOUND
     THEN {<<ValueOf(tag)[i].key>> : i \in 1..Len(ValueOf(tag))}
     ELSE IF TypeOf(tag) = LIST THEN {<<i - 1>> : i \in 1..Len(ValueOf(tag))}
     ELSE {})

InitShape ==
    /\ pc = "tree"
    /\ origin = "tree"
    /\ tree \in ShapeHeaps
    /\ cls = COMPOUND
    /\ data = <<>>
    /\ offset = 0
    /\ result = Nothing
    /\ before = Nothing
    /\ op = NoOp
    /\ window = NoWindow
    /\ disk = NoDisk

\* Add Tag on a tag of the tree, while there is room for an object.
CreateTagIn ==
    /\ pc = "tree"
    /\ \E new_tag \in Objects :
          /\ tree[new_tag] = <<>>
          /\ \A o \in 1..(new_tag - 1) : tree[o] # <<>>
          /\ \E parent_tag \in Shown, name \in ShapeKeys,
                dialog_cls \in {BYTE, LIST, COMPOUND},
                accepted \in BOOLEAN :
                \E r \in {create_tag(tree, parent_tag,
                             [accepted |-> accepted, name |-> name,
                              cls |-> dialog_cls], new_tag)} :
                   /\ tree' = r.heap
                   /\ result' = r
                   /\ op' = [name |-> "create_tag", parent |-> parent_tag]
    /\ before' = tree
    /\ UNCHANGED <<pc, origin, cls, data, offset, window, disk>>

\* Delete on a child of a tag of the tree.
DeleteTagOf ==
    /\ pc = "tree"
    /\ \E parent_tag \in Shown :
          \E parent_key \in KeysOf(tree[parent_tag]) :
             \E r \in {delete_tag(tree[parent_tag], parent_key, "Yes")} :
                /\ tree' = [tree EXCEPT ![parent_tag] = r.self]
                /\ result' = r
                /\ op' = [name |-> "delete_tag", parent |-> parent_tag]
    /\ before' = tree
    /\ UNCHANGED <<pc, origin, cls, data, offset, window, disk>>

\* Rename on a child of a tag of the tree.
RenameTagOf ==
    /\ pc = "tree"
    /\ \E parent_tag \in Shown, new_name \in ShapeKeys :
          \E parent_key \in KeysOf(tree[parent_tag]) :
             \E r \in {rename_tag(tree[parent_tag], parent_key,
                                  [ok |-> TRUE, new_name |-> new_name])} :
                /\ tree' = [tree EXCEPT ![parent_tag] = r.self]
                /\ result' = r
                /\ op' = [name |-> "rename_tag", parent |-> parent_tag]
    /\ before' = tree
    /\ UNCHANGED <<pc, origin, cls, data, offset, window, disk>>

\* A child of a tag of the tree is moved to a tag of the tree.
MoveTag ==
    /\ pc = "tree"
    /\ \E source_parent \in Shown, target_parent \in Shown,
          target_key \in {<<>>} \cup {<<k>> : k \in ShapeKeys},
          ok \in BOOLEAN :
          \E source_key \in KeysOf(tree[source_parent]) :
             \E r \in {move_tag(tree, source_parent, source_key,
                                target_parent, target_key,
                                [ok |-> ok, text |-> <<32, 98>>])} :
                /\ tree' = r.heap
                /\ result' = r
                /\ op' = [name |-> "move_tag", source_parent |-> source_parent,
                          source_key |-> source_key,
                          target_parent |-> target_parent]
    /\ before' = tree
    /\ UNCHANGED <<pc, origin, cls, data, offset, window, disk>>

ShapeNext == CreateTagIn \/ DeleteTagOf \/ RenameTagOf \/ MoveTag

SpecShape == InitShape /\ [][ShapeNext]_vars

\* ------------------------------------------------------- tags compared
\* Tags to compare: the same payload under several classes, empty and
\* one-element arrays and lists, compounds with the same entries in two
\* orders.
EqTags ==
    {ByteTag(-1), ByteTag(0), ShortTag(-1), IntTag(-1), IntTag(1),
     LongTag(<<-1, -1>>), LongTag(<<0, 1>>), LongTag(<<1, 0>>),
     FloatTag(<<0, 0>>), FloatTag(<<1072693248, 0>>),
     DoubleTag(<<1072693248, 0>>), DoubleTag(<<1069128089, -1717986918>>),
     StringTag(<<>>), StringTag(<<97>>),
     ByteArrayTag(<<>>), ByteArrayTag(<<-1>>), IntArrayTag(<<-1>>),
     LongArrayTag(<<<<-1, -1>>>>),
     ListTag(<<>>, NoneType), ListTag(<<>>, END),
     ListTag(<<ByteTag(-1)>>, BYTE), ListTag(<<IntTag(-1)>>, INT),
     CompoundTag(<<>>),
     CompoundTag(<<[key |-> <<97>>, tag |-> ByteTag(-1)]>>),
     CompoundTag(<<[key |-> <<97>>, tag |-> IntTag(1)]>>),
     CompoundTag(<<[key |-> <<97>>, tag |-> ByteTag(-1)],
                   [key |-> <<98>>, tag |-> IntTag(1)]>>),
     CompoundTag(<<[key |-> <<98>>, tag |-> IntTag(1)],
                   [key |-> <<97>>, tag |-> ByteTag(-1)]>>)}

InitEq ==
    /\ pc = "tags"
    /\ origin = "tags"
    /\ cls = COMPOUND
    /\ tree = Nothing
    /\ data = <<>>
    /\ offset = 0
    /\ result = Nothing
    /\ before = Nothing
    /\ op = NoOp
    /\ window = NoWindow
    /\ disk = NoDisk

\* self == other, for two tags built apart from each other
TagEq ==
    /\ pc = "tags"
    /\ \E self \in EqTags, other \in EqTags :
          /\ result' = [equal |-> Tag_eq(self, other)]
          /\ before' = [self |-> self, other |-> other]
    /\ op' = [name |-> "__eq__"]
    /\ pc' = "compared"
    /\ UNCHANGED <<origin, cls, tree, data, offset, window, disk>>

SpecEq == InitEq /\ [][TagEq]_vars

\* ------------------------------------------------- the tags of a parent
\* The most entries a Compound is given.
MaxEntries == 3

\* "a", "b" and "c"
TreeKeys == {<<97>>, <<98>>, <<99>>}

\* The parents of the tag selected in the tree: Compounds and Lists, with
\* children that all differ, so that a child is told by its payload.
Parents ==
    {CompoundTag(<<>>),
     CompoundTag(<<[key |-> <<98>>, tag |-> ByteTag(-1)],
                   [key |-> <<97>>, tag |-> StringTag(<<97>>)]>>),
     CompoundTag(<<[key |-> <<99>>, tag |-> IntTag(3)],
                   [key |-> <<97>>, tag |-> CompoundTag(<<>>)],
                   [key |-> <<98>>, tag |-> ListTag(<<IntTag(1)>>, INT)]>>),
     ListTag(<<>>, END),
     ListTag(<<IntTag(1), IntTag(2)>>, INT),
     ListTag(<<StringTag(<<97>>), StringTag(<<>>), StringTag(<<98>>)>>,
             STRING_TAG)}

\* A parent of the tree, as loaded or built.
InitParent ==
    /\ pc = "edit"
    /\ origin = "parent"
    /\ tree \in Parents
    /\ cls = TypeOf(tree)
    /\ data = <<>>
    /\ offset = 0
    /\ result = Nothing
    /\ before = tree
    /\ op = NoOp
    /\ window = NoWindow
    /\ disk = NoDisk

\* tree[key] = value
CompoundSetItem ==
    /\ pc = "edit"
    /\ TypeOf(tree) = COMPOUND
    /\ \E key \in TreeKeys, value \in Items :
          /\ CompoundTag_contains(tree, key) \/ Size(tree) < MaxEntries
          /\ \E r \in {CompoundTag_setitem(tree, key, value)} :
                /\ tree' = r.self
                /\ result' = r
                /\ op' = [name |-> "__setitem__", key |-> key, item |-> value]
    /\ before' = tree
    /\ pc' = "done"
    /\ UNCHANGED <<origin, cls, data, offset, window, disk>>

\* del tree[key]
CompoundDelItem ==
    /\ pc = "edit"
    /\ TypeOf(tree) = COMPOUND
    /\ \E key \in TreeKeys :
          \E r \in {CompoundTag_delitem(tree, key)} :
             /\ tree' = r.self
             /\ result' = r
             /\ op' = [name |-> "__delitem__", key |-> key]
    /\ before' = tree
    /\ pc' = "done"
    /\ UNCHANGED <<origin, cls, data, offset, window, disk>>

\* The keys the tree has for the children of a parent, and some it has
\* not: None, a name no child has, an index out of range.
ParentKeys(parent_tag) ==
    {<<>>} \cup
    IF TypeOf(parent_tag) = COMPOUND THEN {<<k>> : k \in TreeKeys}
    ELSE {<<i>> : i \in (0 - 1)..Len(ValueOf(parent_tag))}

\* "", "a", " b " and "d", entered or cancelled.
Renamers ==
    [new_name : {<<>>, <<97>>, <<32, 98, 32>>, <<100>>}, ok : BOOLEAN]

\* Rename Tag in the tree's context menu
RenameTag ==
    /\ pc = "edit"
    /\ \E parent_key \in ParentKeys(tree), user \in Renamers :
          \E r \in {rename_tag(tree, parent_key, user)} :
             /\ tree' = r.self
             /\ result' = r
             /\ op' = [name |-> "rename_tag", parent_key |-> parent_key,
                       user |-> user]
    /\ before' = tree
    /\ pc' = "done"
    /\ UNCHANGED <<origin, cls, data, offset, window, disk>>

\* Delete Tag in the tree's context menu
DeleteTag ==
    /\ pc = "edit"
    /\ \E parent_key \in ParentKeys(tree), reply \in {"Yes", "No"} :
          \E r \in {delete_tag(tree, parent_key, reply)} :
             /\ tree' = r.self
             /\ result' = r
             /\ op' = [name |-> "delete_tag", parent_key |-> parent_key,
                       reply |-> reply]
    /\ before' = tree
    /\ pc' = "done"
    /\ UNCHANGED <<origin, cls, data, offset, window, disk>>

ParentNext ==
    CompoundSetItem \/ CompoundDelItem \/ RenameTag \/ DeleteTag
        \/ on_tag_selected

SpecParent == InitParent /\ [][ParentNext]_vars

\* ------------------------------------------------------------- claims
\* Structural equality of two tags: the same variant and the same payload,
\* element by element and entry by entry, in order.
RECURSIVE StructEq(_, _)
StructEq(a, b) ==
    /\ TypeOf(a) = TypeOf(b)
    /\ IF TypeOf(a) = LIST
       THEN /\ Len(ValueOf(a)) = Len(ValueOf(b))
            /\ \A i \in 1..Len(ValueOf(a)) :
                  StructEq(ValueOf(a)[i], ValueOf(b)[i])
       ELSE IF TypeOf(a) = COMPOUND
       THEN /\ Len(ValueOf(a)) = Len(ValueOf(b))
            /\ \A i \in 1..Len(ValueOf(a)) :
                  /\ ValueOf(a)[i].key = ValueOf(b)[i].key
                  /\ StructEq(ValueOf(a)[i].tag, ValueOf(b)[i].tag)
       ELSE ValueOf(a) = ValueOf(b)

\* C1: every valid Compound tree T serializes, and
\* CompoundTag.deserialize(T.serialize(), 0) returns a tree structurally
\* equal to T, key order and element order included.
RoundTrip ==
    (origin = "tree" /\ TypeOf(tree) = COMPOUND) =>
        /\ pc # "encode_failed"
        /\ (pc = "decoded" /\ offset = 0
                /\ data = Serialize(tree).bytes) =>
              (result.st = "ok" /\ StructEq(result.tag, tree))

\* The declared length of the String at offset exceeds the bytes that
\* remain after the length field.
StringTruncated ==
    /\ cls = STRING_TAG
    /\ Len(data) >= offset + 2
    /\ U16(data, offset) > Len(data) - (offset + 2)

\* C2: StringTag.deserialize on a buffer whose declared length exceeds the
\* bytes remaining fails with an error: it returns no (tag, newOffset) and
\* no offset beyond the end of the buffer.
TruncatedStringFails ==
    (pc = "decoded" /\ origin = "raw" /\ StringTruncated) =>
        result.st = "raise"

\* The width of an array's elements.
Width(id) == IF id = BYTE_ARRAY THEN 1 ELSE IF id = INT_ARRAY THEN 4 ELSE 8

\* The count of the array at offset is negative, or count times the element
\* width exceeds the bytes that remain after the count.
BadCount ==
    /\ cls \in ArrayIds
    /\ Len(data) >= offset + 4
    /\ \/ I32(data, offset) < 0
       \/ I32(data, offset) > (Len(data) - (offset + 4)) \div Width(cls)

\* C3: decoding a ByteArray, IntArray or LongArray whose count is negative
\* or too large for the bytes remaining fails with an error and returns no
\* tag.
ArrayCountChecked ==
    (pc = "decoded" /\ origin = "raw" /\ BadCount) => result.st = "raise"

\* C9: decoding T's variant at offset k of (k bytes ++ encode(T) ++ S)
\* returns a tag equal to T and the offset k + len(encode(T)), for every
\* valid tag T, every k and every S.
ExactConsumption ==
    origin = "tree" =>
        /\ pc # "encode_failed"
        /\ pc = "decoded" =>
              /\ result.st = "ok"
              /\ StructEq(result.tag, tree)
              /\ result.off = offset + Len(Serialize(tree).bytes)

\* The List header at offset names an element type TAG_CLASSES has no key
\* for.
UnknownListId ==
    /\ cls = LIST
    /\ origin = "raw"
    /\ Len(data) >= offset + 5
    /\ U8(data, offset) \notin TagIds

\* The first entry of the Compound body at offset has a type byte
\* TAG_CLASSES has no key for.
UnknownEntryId ==
    /\ cls = COMPOUND
    /\ origin = "raw"
    /\ Len(data) > offset
    /\ U8(data, offset) \notin TagIds

\* C8, as claimed: a decode that reads a variant id outside 0..12, as a
\* Compound entry's type byte or as a List's element-type byte, fails with an
\* error instead of producing a tag.
UnknownIdAlwaysFatal ==
    (pc = "decoded" /\ (origin = "bad_entry" \/ UnknownEntryId \/ UnknownListId))
        => result.st = "raise"

\* C8, amended: a decode that reads a variant id outside 0..12 as a Compound
\* entry's type byte, or as the element-type byte of a List whose count is
\* not zero, fails with an error instead of producing a tag, and a Compound
\* decode that fails this way returns none of the entries decoded before it
\* (a List header with a count of zero decodes to an empty list whatever
\* its element-type byte).
UnknownIdFatal ==
    (pc = "decoded"
        /\ \/ origin = "bad_entry"
           \/ UnknownEntryId
           \/ (UnknownListId /\ I32(data, offset + 1) # 0))
        => (result.st = "raise" /\ DOMAIN result = {"st", "err"})

\* An unknown type byte met after an entry that decoded: KeyError, and no
\* tag.
UnknownIdFatalWitness ==
    /\ pc = "decoded"
    /\ origin = "bad_entry"
    /\ ValueOf(tree) # <<>>
    /\ result = Raise("KeyError")

\* The last operation added the tag the add-tag dialog made to the selected
\* tag.
DialogAdded ==
    /\ pc = "done"
    /\ op.name \in {"add_tag", "create_tag"}
    /\ TypeOf(before) \in {LIST, COMPOUND}
    /\ Len(result.new_tag) = 1

\* The value of the signed 8-bit range congruent to n modulo 256.
SignedByteOf(n) == Signed8(n % 256)

\* C4, as claimed: a Byte tag the add-tag dialog creates from the text of an
\* integer n, and a Byte tag update_tag_value edits with that text, hold the
\* value of -128..127 congruent to n modulo 256.
ByteStoredSigned ==
    /\ (DialogAdded /\ TypeOf(result.new_tag[1]) = BYTE
            /\ int(op.user.value_text).st = "ok")
        => ValueOf(result.new_tag[1])
               = SignedByteOf(int(op.user.value_text).val)
    /\ (pc = "done" /\ op.name = "apply_edit" /\ TypeOf(before) = BYTE
            /\ int(op.text).st = "ok")
        => ValueOf(tree) = SignedByteOf(int(op.text).val)

\* The list's element-variant is established: list_tag_type names a variant,
\* neither None nor the End sentinel of a list without elements.
Established(list) == ListTypeOf(list) \notin {NoneType, END}

\* The last operation was ListTag.append of a tag whose variant is not the
\* established element-variant of the list.
MismatchedAppend ==
    /\ pc = "done"
    /\ op.name = "append"
    /\ Established(before)
    /\ TypeOf(op.item) # ListTypeOf(before)

\* C5: ListTag.append of a tag whose variant differs from the list's
\* established element-variant raises TypeError and leaves the elements,
\* their order and the element-variant as they were.
AppendTypeCheckAtomic ==
    MismatchedAppend =>
        /\ result.st = "raise"
        /\ result.err = "TypeError"
        /\ tree = before

\* A mismatched append was made to a list with an element, and refused.
AppendTypeCheckAtomicWitness ==
    /\ MismatchedAppend
    /\ ValueOf(before) # <<>>
    /\ result.st = "raise"
    /\ tree = before

\* C6, as claimed: appending to a list without elements - by ListTag.append,
\* by PropertyEditor._add_to_list or by TagActionController._create_in_list
\* once the dialog is accepted - succeeds, and the list then holds that tag
\* alone and has its variant as element-variant.
AppendToEmptySucceeds ==
    /\ (pc = "done" /\ op.name = "append" /\ ValueOf(before) = <<>>)
        => /\ result.st = "ok"
           /\ tree = ListTag(<<op.item>>, TypeOf(op.item))
    /\ (/\ pc = "done"
        /\ op.name \in {"add_tag", "create_tag"}
        /\ TypeOf(before) = LIST
        /\ ValueOf(before) = <<>>
        /\ AddTagDialog_exec(FALSE, NoneType, op.user).st = "Accepted")
        => LET made == AddTagDialog_exec(FALSE, NoneType, op.user).created_tag
           IN /\ result.shown = "none"
              /\ tree = ListTag(<<made>>, TypeOf(made))

\* The element-type byte ListTag.serialize writes for list.
ElementTypeByte(list) ==
    IF ValueOf(list) = <<>> THEN END ELSE TypeOf(ValueOf(list)[1])

\* Every element of list has the variant list_tag_type records, which is the
\* element-type byte serialize writes (for a list without elements the End
\* sentinel, recorded as End or as None), and the lists among its elements
\* are such lists too.
RECURSIVE Homogeneous(_)
Homogeneous(tag) ==
    CASE TypeOf(tag) = LIST ->
             /\ \A i \in DOMAIN ValueOf(tag) :
                   /\ TypeOf(ValueOf(tag)[i]) = ListTypeOf(tag)
                   /\ Homogeneous(ValueOf(tag)[i])
             /\ ElementTypeByte(tag)
                   = (IF ListTypeOf(tag) = NoneType THEN END
                      ELSE ListTypeOf(tag))
      [] TypeOf(tag) = COMPOUND ->
             \A i \in DOMAIN ValueOf(tag) : Homogeneous(ValueOf(tag)[i].tag)
      [] OTHER -> TRUE

\* C7, as claimed: whatever sequence of ListTag construction, append, index
\* assignment and editor add actions led to it, every list of the selected
\* tag is homogeneous.
ListsHomogeneous == pc \in {"edit", "done"} => Homogeneous(tree)

\* load_nbt_file was called on a file that holds the plain bytes of a root
\* Compound.
LoadedPlain ==
    /\ pc = "loaded"
    /\ op.name = "load_nbt_file"
    /\ origin = "plain"

\* C10: load_nbt_file on a file of plain bytes of a well-formed root
\* Compound succeeds with the name and the tree NBTFile.load(path,
\* gzipped=False) returns; the failure of the gzip attempt before it does not
\* show in the result.
DualAttemptLoad ==
    LoadedPlain =>
        /\ result.st = "ok"
        /\ NBTFile_load(TheFile, FALSE).st = "ok"
        /\ result.name = NBTFile_load(TheFile, FALSE).name
        /\ result.root = NBTFile_load(TheFile, FALSE).root

\* A plain file with a root that has entries was loaded after its gzip
\* attempt failed.
DualAttemptLoadWitness ==
    /\ LoadedPlain
    /\ NBTFile_load(TheFile, TRUE).st = "raise"
    /\ result.st = "ok"
    /\ ValueOf(result.root) # <<>>
    /\ result.name # <<>>

\* load_nbt_file was called on a file both attempts fail on.
BothAttemptsFailed ==
    /\ pc = "loaded"
    /\ op.name = "load_nbt_file"
    /\ NBTFile_load(TheFile, TRUE).st = "raise"
    /\ NBTFile_load(TheFile, FALSE).st = "raise"

\* C11: when the gzip attempt of load_nbt_file fails and the uncompressed
\* attempt fails too, load_nbt_file raises "Failed to load NBT file: "
\* followed by the text of the second attempt's exception; it returns no
\* file.
SecondFailureSurfaced ==
    BothAttemptsFailed =>
        /\ result.st = "raise"
        /\ result.err = "Exception"
        /\ result.msg = "Failed to load NBT file: "
                            \o StrOf(NBTFile_load(TheFile, FALSE))

\* Both attempts failed, each for a cause of its own, on a file that is
\* there, and the error raised names the second attempt's.
SecondFailureSurfacedWitness ==
    /\ BothAttemptsFailed
    /\ origin = "damaged"
    /\ StrOf(NBTFile_load(TheFile, TRUE)) # StrOf(NBTFile_load(TheFile, FALSE))
    /\ result.st = "raise"
    /\ result.msg = "Failed to load NBT file: "
                        \o StrOf(NBTFile_load(TheFile, FALSE))

\* The bytes NBTFile.load read in the call made: the file's, or what gzip
\* gave for them.
DataRead == IF op.gzipped THEN GzipRead(TheFile) ELSE PlainRead(TheFile)

\* NBTFile.load was called and read data that is empty or does not start
\* with the id of Compound.
InvalidRoot ==
    /\ pc = "loaded"
    /\ op.name = "NBTFile.load"
    /\ DataRead.st = "ok"
    /\ \/ DataRead.bytes = <<>>
       \/ DataRead.bytes[1] # COMPOUND

\* C12: NBTFile.load raises, and returns no NBTFile, whenever the data it
\* read is empty ("File is empty") or starts with a byte other than 0x0A
\* ("Root tag must be Compound, got <byte>"), whatever bytes follow.
InvalidRootFatal ==
    InvalidRoot =>
        /\ result.st = "raise"
        /\ result.msg = "Failed to load NBT file: " \o
              (IF DataRead.bytes = <<>> THEN "File is empty"
               ELSE "Root tag must be Compound, got "
                        \o ToString(DataRead.bytes[1]))

\* NBTFile.load raised on data that, but for its first byte, is a file with
\* a root that has entries.
InvalidRootFatalWitness ==
    /\ InvalidRoot
    /\ result.st = "raise"
    /\ Len(DataRead.bytes) > 1
    /\ LET rest == NBTFile_load(
                       File(TRUE, <<COMPOUND>> \o Tail(DataRead.bytes)), FALSE)
       IN /\ rest.st = "ok"
          /\ ValueOf(rest.root) # <<>>

\* A file was saved by save_nbt_file and then loaded by load_nbt_file.
SavedThenLoaded ==
    /\ pc = "loaded"
    /\ op.name = "load_nbt_file"
    /\ origin = "saved"

\* C13, as claimed: for every NBTFile whose root serializes and both values
\* of the compressed flag, load_nbt_file after save_nbt_file returns a file
\* with the same root name and a root structurally equal to the one saved.
FileRoundTrip ==
    SavedThenLoaded =>
        /\ result.st = "ok"
        /\ result.name = before.name
        /\ StructEq(result.root, before.root)

\* compound[k] = tag was done on a Compound.
DidSetItem ==
    /\ pc = "done"
    /\ op.name = "__setitem__"
    /\ TypeOf(before) = COMPOUND

\* The keys of a Compound in the order its serialization has them: those
\* CompoundTag.deserialize reads back from it.
SerializedKeys(compound) ==
    DictKeys(ValueOf(Decode(COMPOUND, Serialize(compound).bytes, 0).tag))

\* C14: compound[k] = tag for a key k the Compound has replaces k's value
\* only: the number of keys and the order of all keys in iteration and in
\* the serialization, k's place included, stay as they were; for a key it
\* does not have, the key is added last.
OverwriteKeepsPosition ==
    DidSetItem =>
        LET old == ValueOf(before)
            new == ValueOf(tree)
        IN /\ DictGet(new, op.key) = op.item
           /\ SerializedKeys(tree) = DictKeys(new)
           /\ IF DictHas(old, op.key)
              THEN /\ DictKeys(new) = DictKeys(old)
                   /\ \A i \in 1..Len(old) :
                         old[i].key # op.key => new[i] = old[i]
              ELSE new = Append(old, [key |-> op.key, tag |-> op.item])

\* The first of three keys was given another value.
OverwriteKeepsPositionWitness ==
    /\ DidSetItem
    /\ Len(ValueOf(before)) = 3
    /\ ValueOf(before)[1].key = op.key
    /\ ValueOf(before)[1].tag # op.item
    /\ ValueOf(tree)[1] = [key |-> op.key, tag |-> op.item]

\* del compound[k] was done for a key k the Compound does not have.
DeletedAbsent ==
    /\ pc = "done"
    /\ op.name = "__delitem__"
    /\ ~CompoundTag_contains(before, op.key)

\* delete_tag was called, and confirmed, for a key its Compound parent does
\* not have.
DeleteTagAbsent ==
    /\ pc = "done"
    /\ op.name = "delete_tag"
    /\ TypeOf(before) = COMPOUND
    /\ op.parent_key # <<>>
    /\ op.reply = "Yes"
    /\ ~CompoundTag_contains(before, op.parent_key[1])

\* rename_tag was called on a Compound for a source key it does not have.
RenamedAbsent ==
    /\ pc = "done"
    /\ op.name = "rename_tag"
    /\ TypeOf(before) = COMPOUND
    /\ op.parent_key # <<>>
    /\ ~CompoundTag_contains(before, op.parent_key[1])

\* rename_tag was called on a Compound for a key it has, and the name
\* entered is, with the blanks around it taken off, the name of another
\* entry.
RenamedToTaken ==
    /\ pc = "done"
    /\ op.name = "rename_tag"
    /\ TypeOf(before) = COMPOUND
    /\ op.parent_key # <<>>
    /\ CompoundTag_contains(before, op.parent_key[1])
    /\ op.user.ok
    /\ strip(op.user.new_name) # op.parent_key[1]
    /\ CompoundTag_contains(before, strip(op.user.new_name))

\* C15: deleting a key a Compound does not have raises (KeyError; from
\* delete_tag: the "Error" box and False), and rename_tag for a source key
\* the Compound does not have, or to the name of another entry of it,
\* returns (False, None); each leaves the Compound's keys, their order and
\* their values as they were.
FailedKeyOpsNoOp ==
    /\ DeletedAbsent => result.st = "raise" /\ tree = before
    /\ DeleteTagAbsent =>
          result.ret = FALSE /\ result.shown = "Error" /\ tree = before
    /\ RenamedAbsent =>
          /\ result.ret = [success |-> FALSE, new_name |-> <<>>]
          /\ tree = before
    /\ RenamedToTaken =>
          /\ result.ret = [success |-> FALSE, new_name |-> <<>>]
          /\ result.shown = "Duplicate Key"
          /\ tree = before

\* A rename of the first of three entries to " b ", with b the third, was
\* refused.
FailedKeyOpsNoOpWitness ==
    /\ RenamedToTaken
    /\ Len(ValueOf(before)) = 3
    /\ op.parent_key[1] = ValueOf(before)[1].key
    /\ op.user.new_name = <<32, 98, 32>>
    /\ ValueOf(before)[3].key = <<98>>
    /\ ~result.ret.success
    /\ tree = before

\* rename_tag returned (True, new name) for a name other than the key the
\* entry had.
RenamedToNew ==
    /\ pc = "done"
    /\ op.name = "rename_tag"
    /\ result.ret.success
    /\ result.ret.new_name # op.parent_key

RenamedToSame ==
    /\ pc = "done"
    /\ op.name = "rename_tag"
    /\ result.ret.success
    /\ result.ret.new_name = op.parent_key

\* C17: after a successful rename to another name the renamed entry is the
\* last in the Compound's iteration and serialization order and the other
\* entries are in the order they were in; a rename to the same name leaves
\* the order as it was.
RenameMovesToEnd ==
    /\ RenamedToNew =>
          /\ ValueOf(tree) =
                Append(DictDel(ValueOf(before), op.parent_key[1]),
                       [key |-> result.ret.new_name[1],
                        tag |-> DictGet(ValueOf(before), op.parent_key[1])])
          /\ SerializedKeys(tree) = DictKeys(ValueOf(tree))
    /\ RenamedToSame =>
          /\ DictKeys(ValueOf(tree)) = DictKeys(ValueOf(before))
          /\ SerializedKeys(tree) = DictKeys(ValueOf(before))

\* The first of three entries was renamed and is now the last.
RenameMovesToEndWitness ==
    /\ RenamedToNew
    /\ Len(ValueOf(before)) = 3
    /\ op.parent_key[1] = ValueOf(before)[1].key
    /\ ValueOf(tree)[3].key = result.ret.new_name[1]
    /\ ValueOf(tree)[1] = ValueOf(before)[2]
    /\ ValueOf(tree)[2] = ValueOf(before)[3]

\* delete_tag was called for a child of a List, with the index the tree
\* keeps for it, by a user who confirms.
DeletedFromList ==
    /\ pc = "done"
    /\ op.name = "delete_tag"
    /\ TypeOf(before) = LIST
    /\ op.parent_key # <<>>
    /\ op.reply = "Yes"

\* C18, as claimed: delete_tag with a List parent and an index i with
\* 0 <= i < len(list), once confirmed, removes element i only, keeps the
\* other elements in order and returns True; with an index out of range it
\* changes nothing and returns False.
ListElementDeletion ==
    DeletedFromList =>
        LET i == op.parent_key[1]
            old == ValueOf(before)
        IN IF 0 <= i /\ i < Len(old)
           THEN /\ result.ret = TRUE
                /\ ValueOf(tree) = SubSeq(old, 1, i) \o SubSeq(old, i + 2, Len(old))
           ELSE /\ result.ret = FALSE
                /\ tree = before

\* ListTag.deserialize returned a list for a buffer that has the five bytes
\* of a List header at offset.
ListDecoded ==
    /\ pc = "decoded"
    /\ cls = LIST
    /\ Len(data) >= offset + 5
    /\ result.st = "ok"

\* C19, as claimed: if the element-type byte is End or the count is 0 the
\* list decoded is empty with element-variant None; otherwise it has
\* exactly count elements, all of the declared variant, in wire order (for
\* the encoding of a list: its elements, in its order).
ListDecodeRule ==
    ListDecoded =>
        LET id == U8(data, offset)
            count == I32(data, offset + 1)
            tags == ValueOf(result.tag)
        IN IF id = END \/ count = 0
           THEN tags = <<>> /\ ListTypeOf(result.tag) = NoneType
           ELSE /\ Len(tags) = count
                /\ ListTypeOf(result.tag) = id
                /\ \A i \in 1..Len(tags) : TypeOf(tags[i]) = id
                /\ origin = "tree" =>
                      \A i \in 1..Len(tags) :
                          StructEq(tags[i], ValueOf(tree)[i])

\* C20, as claimed: validate_nbt_format reports a file valid if and only if
\* its root is a Compound and serializing the root completes without error.
StructuralValidity ==
    (pc = "validated" /\ op.name = "validate_nbt_format") =>
        (result.valid <=>
            IF before.root = <<>> THEN FALSE
            ELSE /\ TypeOf(before.root) = COMPOUND
                 /\ Serialize(before.root).st = "ok")

\* validate_nbt_file was called on a file that is structurally valid: its
\* root is a Compound that serializes.
ValidatedValid ==
    /\ pc = "validated"
    /\ op.name = "validate_nbt_file"
    /\ before.root # <<>>
    /\ TypeOf(before.root) = COMPOUND
    /\ Serialize(before.root).st = "ok"

\* The file is named level.dat and the Compound under Data has Version but
\* no DataVersion.
LevelWithoutDataVersion ==
    /\ lower(basename(op.filepath)) = LevelDat
    /\ CompoundTag_contains(before.root, DataKey)
    /\ TypeOf(DictGet(ValueOf(before.root), DataKey)) = COMPOUND
    /\ CompoundTag_contains(DictGet(ValueOf(before.root), DataKey), VersionKey)
    /\ ~CompoundTag_contains(DictGet(ValueOf(before.root), DataKey),
                             DataVersionKey)

\* C21: for every structurally valid tree and every file name
\* validate_nbt_file returns is-valid true, however many warnings the game
\* checks produce; for a file named level.dat whose Data compound has
\* Version and lacks DataVersion, the issues are exactly one warning, which
\* names DataVersion.
WarningsAdvisory ==
    ValidatedValid =>
        /\ result.valid
        /\ LevelWithoutDataVersion =>
              result.errors = <<"level.dat missing 'DataVersion' tag">>

\* A level.dat, named in upper case, without Data: valid, with a warning;
\* or one with Version only: valid, with the one warning.
WarningsAdvisoryWitness ==
    /\ ValidatedValid
    /\ LevelWithoutDataVersion
    /\ result.valid
    /\ Len(result.errors) = 1

\* Save or Save As has run with a file in the window and a path to write.
DidSave ==
    /\ pc = "window"
    /\ op.name \in {"save_file", "save_file_as"}
    /\ before.window.current_nbt_file # <<>>
    /\ \/ op.filepath # <<>>
       \/ op.name = "save_file" /\ before.window.current_file_path # <<>>

\* The path that Save or Save As wrote to.
SavedPath ==
    IF op.name = "save_file" /\ before.window.current_file_path # <<>>
    THEN before.window.current_file_path[1]
    ELSE op.filepath

\* The positions of an event among the events of the handler.
EventAt(event) == {i \in 1..Len(result.events) : result.events[i] = event}

\* The write succeeded: it was made and no error box followed.
WriteSucceeded == EventAt("handle_file_save") # {} /\ EventAt("critical: Error") = {}

\* C22: in Save and Save As the file is written before validation runs: the
\* write is made once and first; when it succeeded validation follows it,
\* and whatever validation says the path holds the bytes written; when it
\* failed validation is not run at all.
ValidationNeverBlocksSave ==
    DidSave =>
        /\ EventAt("handle_file_save") = {1}
        /\ WriteSucceeded =>
              /\ EventAt("get_validation_results") = {2}
              /\ disk[SavedPath] =
                    handle_file_save(before.window.current_nbt_file[1],
                        before.disk[SavedPath], TRUE, basename(SavedPath),
                        SessionTime).file
              /\ disk[SavedPath].exists
        /\ ~WriteSucceeded => EventAt("get_validation_results") = {}

\* A file saved with warnings: the path holds new bytes all the same.
ValidationNeverBlocksSaveWitness ==
    /\ DidSave
    /\ WriteSucceeded
    /\ EventAt("warning: Saved with Warnings") = {3}
    /\ disk[SavedPath] # before.disk[SavedPath]

\* A write that failed: the error box, and no validation.
WriteFailedUnvalidated ==
    /\ DidSave
    /\ ~WriteSucceeded
    /\ result.events = <<"handle_file_save", "critical: Error">>

\* A handler of the File menu has run.
DidFileMenu ==
    /\ pc = "window"
    /\ op.name \in {"open_file", "save_file", "save_file_as", "create_new_file"}

\* Open loaded the file picked.
OpenSucceeded ==
    op.name = "open_file" /\ result.events = <<"handle_file_open">>

\* Save As, from the menu or from Save without a path, wrote the file.
SaveAsSucceeded ==
    /\ DidSave
    /\ op.name = "save_file" => before.window.current_file_path = <<>>
    /\ WriteSucceeded

\* C29: the pair (current_nbt_file, current_file_path) changes only on a
\* successful Open (both set), on New (file set, path cleared) and on a
\* successful Save As (path set); every other outcome of Open, Save and
\* Save As leaves it as it was, and a set path implies a set file.
SessionPair ==
    /\ DidFileMenu =>
          IF OpenSucceeded
          THEN /\ window.current_nbt_file # <<>>
               /\ window.current_file_path = <<op.filepath>>
          ELSE IF op.name = "create_new_file"
          THEN /\ window.current_nbt_file # <<>>
               /\ window.current_file_path = <<>>
          ELSE IF SaveAsSucceeded
          THEN window = [before.window EXCEPT
                            !.current_file_path = <<op.filepath>>]
          ELSE window = before.window
    /\ window.current_file_path # <<>> => window.current_nbt_file # <<>>

\* Open failed with a file in the window: file and path are the old ones.
SessionPairWitness ==
    /\ DidFileMenu
    /\ op.name = "open_file"
    /\ "critical: Error" \in {result.events[i] : i \in 1..Len(result.events)}
    /\ window.current_file_path # <<>>
    /\ window.current_file_path # <<op.filepath>>
    /\ window = before.window

\* The bytes begin as a gzip member does: the magic number and deflate.
GzipMember(bytes) == Len(bytes) >= 3 /\ SubSeq(bytes, 1, 3) = <<31, 139, 8>>

\* C30: every save of the main window, Save or Save As, writes
\* gzip-compressed output, whether the file at the path, or the file the
\* window holds, was compressed or not.
SavesCompressed ==
    (DidSave /\ WriteSucceeded) => GzipMember(disk[SavedPath].bytes)

\* Save over the uncompressed file that was opened: it is compressed now.
SavesCompressedWitness ==
    /\ DidSave
    /\ WriteSucceeded
    /\ op.name = "save_file"
    /\ before.window.current_file_path = <<SavedPath>>
    /\ before.disk[SavedPath].exists
    /\ before.disk[SavedPath].bytes =
          NBTFile_data(before.window.current_nbt_file[1].name,
                       before.window.current_nbt_file[1].root).bytes
    /\ GzipMember(disk[SavedPath].bytes)

\* Two tags are of the same variant with equal payloads: equal values for
\* the scalars, strings and arrays, children that are so in order for a
\* List, and under the same keys for a Compound.
RECURSIVE SameTag(_, _)
SameTag(a, b) ==
    /\ TypeOf(a) = TypeOf(b)
    /\ IF TypeOf(a) = LIST
       THEN /\ Len(ValueOf(a)) = Len(ValueOf(b))
            /\ \A i \in 1..Len(ValueOf(a)) :
                  SameTag(ValueOf(a)[i], ValueOf(b)[i])
       ELSE IF TypeOf(a) = COMPOUND
       THEN /\ Len(ValueOf(a)) = Len(ValueOf(b))
            /\ \A i \in 1..Len(ValueOf(a)) :
                  /\ DictHas(ValueOf(b), ValueOf(a)[i].key)
                  /\ SameTag(ValueOf(a)[i].tag,
                             DictGet(ValueOf(b), ValueOf(a)[i].key))
       ELSE ValueOf(a) = ValueOf(b)

\* C23: two tags are equal exactly when they are of the same variant and
\* their payloads are equal, recursively for the children of Lists and
\* Compounds; tags of different variants are never equal.
TagEquality ==
    pc = "compared" =>
        (result.equal <=> SameTag(before.self, before.other))

\* Apply was pressed and update_tag_value raised: a message box was shown.
EditFailed ==
    /\ pc = "done"
    /\ op.name = "apply_edit"
    /\ result.shown # "none"

\* C24: if update_tag_value raises, on a numeric text or on any element of
\* an array text that does not parse, the tag's value is exactly what it
\* was before the call; an array is never left partially updated.
FailedEditsAtomic == EditFailed => tree = before

\* "1,x" applied to an array that holds an element: the first element
\* parses, the second does not, and the array is as it was.
FailedEditsAtomicWitness ==
    /\ EditFailed
    /\ op.text = <<49, 44, 120>>
    /\ TypeOf(before) \in {BYTE_ARRAY, INT_ARRAY}
    /\ Len(ValueOf(before)) = 1
    /\ tree = before

\* The objects form a tree: no object is reached from itself, and none is
\* held in two slots.
IsTree(heap) ==
    \A o \in Objects :
        /\ o \notin Descendants(heap, {o}, MaxObjects)
        /\ Cardinality(Holders(heap, o)) <= 1

\* C25: after any sequence of create, delete, rename and move_tag
\* operations starting from a tree the tag structure is still a tree: no
\* Compound or List is reachable from itself and no tag is held in two
\* parent slots.
TreeShapePreserved == pc = "tree" => IsTree(tree)

\* C26: CompoundTag.deserialize terminates on every finite byte buffer,
\* returning a tree or raising an error.
DecodeTerminates ==
    (pc = "decoded" /\ cls = COMPOUND) => result.st \in {"ok", "raise"}

\* An add-tag or edit-value operation completed without a message box, on
\* a tree that serialized before it.
EditAccepted ==
    /\ pc = "done"
    /\ op.name \in {"apply_edit", "add_tag", "create_tag"}
    /\ result.st = "ok"
    /\ result.shown = "none"
    /\ Serialize(before).st = "ok"

\* C27: after add-tag and edit-value operations that completed without
\* reporting an error the tree serializes without error: every stored
\* Byte, Short, Int and Long lies in the range its encoder accepts.
AcceptedEditsSerializable == EditAccepted => Serialize(tree).st = "ok"

\* save_nbt_file raised: the root did not serialize.
SaveFailed ==
    /\ pc = "saved"
    /\ op.name = "save_nbt_file"
    /\ result.st = "raise"

\* C28: NBTFile.save builds the complete encoding before it opens the
\* target path: if serializing the tree fails the target file is neither
\* created nor truncated, its previous contents are intact, and the
\* failure is reported as a failed-to-save error.
SaveAllOrNothing ==
    SaveFailed =>
        /\ TheFile = before.file
        /\ result.err = "Exception"
        /\ result.msg = "Failed to save NBT file: "
                            \o ("Failed to save NBT file: "
                                \o NBTFile_data(before.name, before.root).err)

\* A save that failed over a file with contents: they are still there.
SaveAllOrNothingWitness ==
    /\ SaveFailed
    /\ before.file.exists
    /\ before.file.bytes # <<>>
    /\ data = before.file.bytes

\* A save that failed where no file was: there is none.
FailedSaveCreatesNothing ==
    /\ SaveFailed
    /\ ~before.file.exists
    /\ origin = "missing"

====
